---- MODULE Spec2Model ----
(***************************************************************************)
(* Model of the move classifier of "My Chess Engine":                      *)
(*   analyzer.py  analyze_moves_for_position and its helpers,              *)
(*   server.py    the engine adapter that feeds it.                        *)
(*                                                                         *)
(* Number representation.  The analyzer works on Python floats.  Here a    *)
(* win probability is an integer number of thousandths of a percent        *)
(* (50.0 % = 50000), an accuracy before rounding is an integer number of   *)
(* ten-thousandths of a point, centipawns and depths are integers.  An     *)
(* Optional[int] is a sequence: <<>> is None, <<v>> is the integer v.  A   *)
(* Python dict is a function whose DOMAIN is the set of keys present.      *)
(***************************************************************************)
EXTENDS Integers, Sequences, FiniteSets, TLC

VARIABLES
    \* ---- arguments of analyze_moves_for_position and collaborators ----
    side_to_move_white,     \* bool
    returns_white_pov,      \* engine_interface.returns_white_pov
    default_depth,          \* engine_interface.default_depth
    eval_before,            \* EngineEval: [cp, mate, material]
    legal_moves_data,       \* sequence of move_data dicts
    board_master,           \* what chess.Board(fen) answers: own piece counts
                            \* before, and per move the counts after and the
                            \* capture facts
    book_db,                \* set of move_uci for which in_book answers True
    \* ---- locals of one call ----
    pc,                     \* position in the function
    analysis_id_base,       \* str(uuid.uuid4())
    cp_val_before,
    win_before,
    mate_val_before,
    material_before_cp,
    is_forced_position,
    processed_moves,
    best_move_cp_score,
    best_move_win_percent,
    idx,                    \* index of the second-pass loop
    is_sac_candidate,
    sac_type,
    verified_sound,
    is_unverified,
    comments,
    results,
    \* ---- observation of the collaborators and of the caller ----
    evaluate_calls,         \* calls of engine_interface.evaluate of this call
    call_no,                \* how many calls of the function were started
    returned,               \* what the finished calls returned / raised
    \* ---- the helpers called on their own ----
    config,                 \* the Config handed to classify_by_delta
    classified,             \* the losses classified so far and their buckets
    shown,                  \* the labels displayed so far, icon and colour
    \* ---- the opening book of book.py ----
    book_cache,             \* BookManager._cache: position key -> set of moves
    lookups,                \* the book lookups made so far and their answers
    \* ---- mate_to_cp_equiv called on its own ----
    converted,              \* the mate distances converted so far
    \* ---- analyze_full_game of server.py ----
    stats,                  \* per side, the counter of each label
    acc_totals,             \* per side, the sum of the accuracies
    move_counts             \* per side, the moves analysed

inputs == <<side_to_move_white, returns_white_pov, default_depth, eval_before,
            legal_moves_data, board_master, book_db>>
locals == <<analysis_id_base, cp_val_before, win_before, mate_val_before,
            material_before_cp, is_forced_position, processed_moves,
            best_move_cp_score, best_move_win_percent, idx, is_sac_candidate,
            sac_type, verified_sound, is_unverified, comments, results>>
server == <<stats, acc_totals, move_counts>>
helpers == <<config, classified, shown, book_cache, lookups, converted, server>>
analyzer == <<inputs, locals, pc, evaluate_calls, call_no, returned>>
vars == <<inputs, locals, pc, evaluate_calls, call_no, returned, helpers>>

----------------------------------------------------------------------------
(* Python idioms *)

None == <<>>
Some(v) == <<v>>
Val(o) == o[1]

Get(d, k, dflt) == IF k \in DOMAIN d THEN d[k] ELSE dflt

Abs(x) == IF x < 0 THEN -x ELSE x
Max(a, b) == IF a >= b THEN a ELSE b
Min(a, b) == IF a <= b THEN a ELSE b

\* Python round(x) for x = num / den: to the nearest integer, ties to even.
PyRound(num, den) ==
    LET q == num \div den
        r == num % den
    IN  IF 2 * r > den THEN q + 1
        ELSE IF 2 * r < den THEN q
        ELSE IF q % 2 = 0 THEN q ELSE q + 1

----------------------------------------------------------------------------
(* Config (analyzer.py 20-72), win percentages in thousandths of a percent *)

mate_win_score == 100000
mate_loss_score == 0
mate_cp_base == 10000
mate_cp_step == 100
big_sacrifice_cp == 210
pawn_sacrifice_cp == 90
sacrifice_sound_max_win_loss == 5000
tie_cp_eps == 10
tie_win_eps == 700
delta_best == 1000
delta_excellent == 3000
delta_good == 5000
delta_inaccuracy == 9000
delta_mistake == 20000
book_dubious_threshold == 2000
\* sigmoid_k 0.00368, in hundred-thousandths
sigmoid_k == 368
verification_depth_extra == 4

\* config.piece_values, keyed by the piece letter
piece_values ==
    [s \in {"P", "N", "B", "R", "Q", "K"} |->
        CASE s = "P" -> 100 [] s = "N" -> 320 [] s = "B" -> 330
          [] s = "R" -> 500 [] s = "Q" -> 900 [] s = "K" -> 0]

\* material_penalty_factor 0.8 and the /100.0 of the penalty, as the number of
\* ten-thousandths of an accuracy point per centipawn lost: 0.8 / 100 * 10^4
material_penalty_per_cp == 80

\* ServerEngineInterface(engine, depth=12)
EngineDepth == 12

----------------------------------------------------------------------------
(* Core helper functions *)

normalize_cp(engine_cp, engine_returns_white_pov, stm_white) ==
    IF engine_cp = None THEN None
    ELSE IF engine_returns_white_pov
         THEN (IF stm_white THEN engine_cp ELSE Some(-Val(engine_cp)))
         ELSE engine_cp

\* the mate normalisation written out three times in the function
\* (249-250, 323-324, 527-528, 603-604)
normalize_mate(mate, engine_returns_white_pov, stm_white) ==
    IF engine_returns_white_pov /\ ~stm_white THEN -mate ELSE mate

mate_to_cp_equiv(mate) ==
    IF mate = 0 THEN 0
    ELSE (IF mate > 0 THEN 1 ELSE -1) * (mate_cp_base - Abs(mate) * mate_cp_step)

\* 100 / (1 + exp(-0.00368 * cp)) in thousandths of a percent, rounded to the
\* nearest, tabulated at the centipawn values the inputs of the model produce
SigmoidTable ==
    (-250 :> 28496) @@ (-50 :> 45413) @@ (0 :> 50000) @@ (50 :> 54587)
    @@ (250 :> 71504)
    @@ (30 :> 52757) @@ (40 :> 53673) @@ (100 :> 59098) @@ (1300 :> 99171)
    @@ (-30 :> 47243)

cp_to_win_percent(cp) == SigmoidTable[cp]

\* piece_char.upper()
Upper(s) ==
    CASE s = "p" -> "P" [] s = "n" -> "N" [] s = "b" -> "B"
      [] s = "r" -> "R" [] s = "q" -> "Q" [] s = "k" -> "K"
      [] OTHER -> s

\* one term of the sum of compute_material_cp
MaterialTerm(material_counts, k) ==
    IF Upper(k) \in DOMAIN piece_values
    THEN material_counts[k] * piece_values[Upper(k)]
    ELSE 0

RECURSIVE MaterialSum(_, _)
MaterialSum(material_counts, keys) ==
    IF keys = {} THEN 0
    ELSE LET k == CHOOSE y \in keys : TRUE
         IN  MaterialTerm(material_counts, k)
             + MaterialSum(material_counts, keys \ {k})

compute_material_cp(material_counts) ==
    MaterialSum(material_counts, DOMAIN material_counts)

\* tenths: 1.4, 1.1, 0.6, 1.0
scale_by_position(wb) ==
    IF 45000 <= wb /\ wb <= 55000 THEN 14
    ELSE IF (35000 <= wb /\ wb < 45000) \/ (55000 < wb /\ wb <= 65000) THEN 11
    ELSE IF wb < 20000 \/ wb > 80000 THEN 6
    ELSE 10

\* Config(...): the dataclass stores the fields it is given; it has no
\* __post_init__ and checks nothing
Config(db, de, dg, di, dm, k) ==
    [delta_best |-> db, delta_excellent |-> de, delta_good |-> dg,
     delta_inaccuracy |-> di, delta_mistake |-> dm, sigmoid_k |-> k,
     sacrifice_sound_max_win_loss |-> sacrifice_sound_max_win_loss]

\* DEFAULT_CONFIG = Config()
DEFAULT_CONFIG ==
    Config(delta_best, delta_excellent, delta_good, delta_inaccuracy,
           delta_mistake, sigmoid_k)

\* a slip: the boundary value falls into the harsher bucket
classify_by_delta_Strict(loss, cfg) ==
    IF loss < cfg.delta_best THEN "Best"
    ELSE IF loss < cfg.delta_excellent THEN "Excellent"
    ELSE IF loss < cfg.delta_good THEN "Good"
    ELSE IF loss < cfg.delta_inaccuracy THEN "Inaccuracy"
    ELSE IF loss < cfg.delta_mistake THEN "Mistake"
    ELSE "Blunder"

\* a slip: two labels of the chain are exchanged
classify_by_delta_LabelsSwapped(loss, cfg) ==
    IF loss <= cfg.delta_best THEN "Best"
    ELSE IF loss <= cfg.delta_excellent THEN "Good"
    ELSE IF loss <= cfg.delta_good THEN "Excellent"
    ELSE IF loss <= cfg.delta_inaccuracy THEN "Inaccuracy"
    ELSE IF loss <= cfg.delta_mistake THEN "Mistake"
    ELSE "Blunder"

\* classify_by_delta(loss, config)
classify_by_delta_with(loss, cfg) ==
    IF loss <= cfg.delta_best THEN "Best"
    ELSE IF loss <= cfg.delta_excellent THEN "Excellent"
    ELSE IF loss <= cfg.delta_good THEN "Good"
    ELSE IF loss <= cfg.delta_inaccuracy THEN "Inaccuracy"
    ELSE IF loss <= cfg.delta_mistake THEN "Mistake"
    ELSE "Blunder"

\* classify_by_delta(loss, config) inside analyze_moves_for_position, where
\* the caller passes Config()
classify_by_delta(loss) == classify_by_delta_with(loss, DEFAULT_CONFIG)

----------------------------------------------------------------------------
(* analyze_moves_for_position: section 1 and the first pass *)

Pieces == {"P", "N", "B", "R", "Q"}

\* lines 278-281 and 395-398: the mover's pieces counted on a board
board_material_cp(counts) ==
    compute_material_cp([s \in Pieces |-> counts[s]])

\* lines 243-263: cp_val_before, win_before, mate_val_before
EvalBeforeMate ==
    normalize_mate(Val(eval_before.mate), returns_white_pov, side_to_move_white)

EvalBeforeCp ==
    IF eval_before.mate # None
    THEN mate_to_cp_equiv(EvalBeforeMate)
    ELSE LET c == normalize_cp(eval_before.cp, returns_white_pov,
                               side_to_move_white)
         IN  IF c = None THEN 0 ELSE Val(c)

EvalBeforeWin ==
    IF eval_before.mate # None
    THEN (IF EvalBeforeMate > 0 THEN mate_win_score ELSE mate_loss_score)
    ELSE cp_to_win_percent(EvalBeforeCp)

\* lines 272-281
MaterialBefore ==
    IF eval_before.material # <<>>
    THEN compute_material_cp(eval_before.material)
    ELSE board_material_cp(board_master.own)

\* a slip: the list of results outlives the call
Begin_KeepsResults ==
    /\ pc = "start"
    /\ \E u \in 1..call_no : analysis_id_base' = u
    /\ cp_val_before' = EvalBeforeCp
    /\ win_before' = EvalBeforeWin
    /\ mate_val_before' =
         IF eval_before.mate # None THEN Some(EvalBeforeMate) ELSE None
    /\ material_before_cp' = MaterialBefore
    /\ is_forced_position' = (Len(legal_moves_data) = 1)
    /\ processed_moves' = <<>>
    /\ best_move_cp_score' = None
    /\ best_move_win_percent' = -1000
    /\ evaluate_calls' = <<>>
    /\ pc' = "first_pass"
    /\ UNCHANGED <<helpers, inputs, idx, is_sac_candidate, sac_type, verified_sound,
                   is_unverified, comments, results, call_no, returned>>

\* lines 234-295: the uuid, the evaluation before, the material before, the
\* empty accumulators.  uuid4 is random: the identifier of a later call is the
\* one of an earlier call or a new one (identifiers are named in order of
\* first appearance).
Begin ==
    /\ pc = "start"
    /\ \E u \in 1..call_no : analysis_id_base' = u
    /\ cp_val_before' = EvalBeforeCp
    /\ win_before' = EvalBeforeWin
    /\ mate_val_before' =
         IF eval_before.mate # None THEN Some(EvalBeforeMate) ELSE None
    /\ material_before_cp' = MaterialBefore
    /\ results' = <<>>
    /\ is_forced_position' = (Len(legal_moves_data) = 1)
    /\ processed_moves' = <<>>
    /\ best_move_cp_score' = None          \* -inf
    /\ best_move_win_percent' = -1000      \* -1.0
    /\ evaluate_calls' = <<>>
    /\ pc' = "first_pass"
    /\ UNCHANGED <<helpers, inputs, idx, is_sac_candidate, sac_type, verified_sound,
                   is_unverified, comments, call_no, returned>>

\* a slip: a cp supplied together with a mate is taken instead of the mate
ProcessMove_CpFirst(move_data) ==
    LET e_eval == Get(move_data, "engine_eval_after", <<>>)
        raw_cp == Get(e_eval, "cp", None)
        raw_mate == Get(e_eval, "mate", None)
        n_cp == normalize_cp(raw_cp, returns_white_pov, side_to_move_white)
        mate_val == normalize_mate(Val(raw_mate), returns_white_pov,
                                   side_to_move_white)
        current_cp == IF n_cp # None THEN Val(n_cp)
                      ELSE IF raw_mate # None THEN mate_to_cp_equiv(mate_val)
                      ELSE 0
        current_win == IF n_cp = None /\ raw_mate # None
                       THEN (IF mate_val > 0 THEN mate_win_score
                                             ELSE mate_loss_score)
                       ELSE cp_to_win_percent(current_cp)
    IN  [data |-> move_data, cp |-> current_cp, win |-> current_win]

\* lines 304-334: one candidate of the first pass
ProcessMove(move_data) ==
    LET e_eval == Get(move_data, "engine_eval_after", <<>>)
        raw_cp == Get(e_eval, "cp", None)
        raw_mate == Get(e_eval, "mate", None)
        n_cp == normalize_cp(raw_cp, returns_white_pov, side_to_move_white)
        mate_val == normalize_mate(Val(raw_mate), returns_white_pov,
                                   side_to_move_white)
        current_cp == IF raw_mate # None THEN mate_to_cp_equiv(mate_val)
                      ELSE IF n_cp = None THEN 0 ELSE Val(n_cp)
        current_win == IF raw_mate # None
                       THEN (IF mate_val > 0 THEN mate_win_score
                                             ELSE mate_loss_score)
                       ELSE cp_to_win_percent(current_cp)
    IN  [data |-> move_data, cp |-> current_cp, win |-> current_win]

\* lines 336-340: the running maxima after the first k candidates
RECURSIVE BestCp(_, _)
BestCp(pm, k) ==
    IF k = 0 THEN None
    ELSE LET b == BestCp(pm, k - 1)
         IN  IF b = None \/ pm[k].cp > Val(b) THEN Some(pm[k].cp) ELSE b

RECURSIVE BestWin(_, _)
BestWin(pm, k) ==
    IF k = 0 THEN -1000
    ELSE LET b == BestWin(pm, k - 1)
         IN  IF pm[k].win > b THEN pm[k].win ELSE b

\* lines 297-346: the whole first loop
FirstPass ==
    /\ pc = "first_pass"
    /\ LET pm == [i \in 1..Len(legal_moves_data) |->
                    ProcessMove(legal_moves_data[i])]
       IN  /\ processed_moves' = pm
           /\ best_move_cp_score' = BestCp(pm, Len(pm))
           /\ best_move_win_percent' = BestWin(pm, Len(pm))
    /\ idx' = 1
    /\ pc' = IF Len(legal_moves_data) = 0 THEN "return" ELSE "second_pass"
    /\ UNCHANGED <<helpers, inputs, analysis_id_base, cp_val_before, win_before,
                   mate_val_before, material_before_cp, is_forced_position,
                   is_sac_candidate, sac_type, verified_sound, is_unverified,
                   comments, results, evaluate_calls, call_no, returned>>

----------------------------------------------------------------------------
(* The second pass: the candidate at idx *)

Entry == processed_moves[idx]
MoveData == Entry.data
MoveUci == MoveData.move_uci
CpAfter == Entry.cp
WinAfter == Entry.win
BoardFacts == board_master.moves[MoveUci]

\* line 359
WinDelta == win_before - WinAfter
\* line 369
EffectiveLoss == Max(0, WinDelta)

\* a slip: the margins are exclusive
IsTiedBest_Exclusive ==
    IF Abs(CpAfter - Val(best_move_cp_score)) < tie_cp_eps THEN TRUE
    ELSE Abs(WinAfter - best_move_win_percent) < tie_win_eps

\* lines 374-378
IsTiedBest ==
    IF Abs(CpAfter - Val(best_move_cp_score)) <= tie_cp_eps THEN TRUE
    ELSE Abs(WinAfter - best_move_win_percent) <= tie_win_eps

\* lines 388-400
MatAfterDict == Get(MoveData, "material_after", <<>>)

MaterialAfter ==
    IF MatAfterDict # <<>>
    THEN compute_material_cp(MatAfterDict)
    ELSE board_material_cp(BoardFacts.own_after)

MaterialDelta == MaterialAfter - material_before_cp

\* lines 406-411
RECURSIVE CountSum(_, _)
CountSum(m_dict, keys) ==
    IF keys = {} THEN 0
    ELSE LET k == CHOOSE y \in keys : TRUE
         IN  (IF Upper(k) # "P" /\ Upper(k) # "K" THEN m_dict[k] ELSE 0)
             + CountSum(m_dict, keys \ {k})

count_pieces(m_dict) == CountSum(m_dict, DOMAIN m_dict)

\* lines 437-438
count_non_pawns_on_board(counts) ==
    counts["N"] + counts["B"] + counts["R"] + counts["Q"]

\* lines 422-444
NonPawnLoss ==
    IF eval_before.material # <<>> /\ MatAfterDict # <<>>
    THEN count_pieces(eval_before.material) - count_pieces(MatAfterDict)
    ELSE count_non_pawns_on_board(board_master.own)
         - count_non_pawns_on_board(BoardFacts.own_after)

\* line 451: book_manager.in_book(canonical_fen, move_uci)
IsBook == MoveUci \in book_db

\* line 467: None when the key is there with a null value
DepthInput == Get(Get(MoveData, "engine_eval_after", <<>>), "depth", Some(0))

\* lines 475-480: "" stands for sac_type = None
SacByMaterial ==
    IF MaterialDelta <= -big_sacrifice_cp THEN "Brilliant"
    ELSE IF MaterialDelta <= -pawn_sacrifice_cp THEN "Great"
    ELSE ""

\* a slip: the capture is marked whether or not the destination is attacked
SacByTrade_Unattacked ==
    IF /\ BoardFacts.is_capture
       /\ BoardFacts.victim_pt # ""
       /\ BoardFacts.attacker_pt # ""
    THEN LET trade_delta == piece_values[BoardFacts.victim_pt]
                            - piece_values[BoardFacts.attacker_pt]
         IN  IF trade_delta <= -big_sacrifice_cp THEN "Brilliant"
             ELSE IF trade_delta <= -pawn_sacrifice_cp THEN "Great"
             ELSE ""
    ELSE ""

\* lines 484-501: victim and attacker are piece letters, "" when the square is
\* empty; attacked is board_master.is_attacked_by(opp_color, to_square), asked
\* of the board before the move
SacByTrade ==
    IF /\ BoardFacts.is_capture
       /\ BoardFacts.victim_pt # ""
       /\ BoardFacts.attacker_pt # ""
       /\ BoardFacts.attacked
    THEN LET trade_delta == piece_values[BoardFacts.victim_pt]
                            - piece_values[BoardFacts.attacker_pt]
         IN  IF trade_delta <= -big_sacrifice_cp THEN "Brilliant"
             ELSE IF trade_delta <= -pawn_sacrifice_cp THEN "Great"
             ELSE ""
    ELSE ""

\* a slip: a candidate need not be tied for best to be a sacrifice
SacType_Untied ==
    IF ~is_forced_position
    THEN (IF SacByMaterial # "" THEN SacByMaterial ELSE SacByTrade)
    ELSE ""

\* lines 471-501
SacType ==
    IF IsTiedBest /\ ~is_forced_position
    THEN (IF SacByMaterial # "" THEN SacByMaterial ELSE SacByTrade)
    ELSE ""

\* a slip: every sacrifice candidate is verified, whatever its shallow loss
ShouldVerify_AnySacrifice == SacType # ""

\* line 507
ShouldVerify == SacType # "" /\ EffectiveLoss < config.sacrifice_sound_max_win_loss

\* lines 349-507: one iteration up to the decision to verify
SecondPassBegin ==
    /\ pc = "second_pass"
    /\ is_sac_candidate' = (SacType # "")
    /\ sac_type' = SacType
    /\ comments' = <<>>
    /\ verified_sound' = FALSE
    /\ is_unverified' = FALSE
    /\ pc' = IF ShouldVerify THEN "verify" ELSE "classify"
    /\ UNCHANGED <<helpers, inputs, analysis_id_base, cp_val_before, win_before,
                   mate_val_before, material_before_cp, is_forced_position,
                   processed_moves, best_move_cp_score, best_move_win_percent,
                   idx, results, evaluate_calls, call_no, returned>>

\* line 517
VerifyDepth == default_depth + verification_depth_extra

\* lines 521-536
DeepWin(deep_eval) ==
    LET d_cp == normalize_cp(Get(deep_eval, "cp", None), returns_white_pov,
                             side_to_move_white)
        d_mate == Get(deep_eval, "mate", None)
    IN  IF d_mate # None
        THEN (IF normalize_mate(Val(d_mate), returns_white_pov,
                                side_to_move_white) > 0
              THEN mate_win_score ELSE mate_loss_score)
        ELSE cp_to_win_percent(IF d_cp = None THEN 0 ELSE Val(d_cp))

\* lines 538-539
DeepDelta(deep_eval) == Max(0, win_before - DeepWin(deep_eval))

\* a slip: a deep loss equal to the threshold verifies
DeepVerified_Inclusive(deep_eval) ==
    DeepDelta(deep_eval) <= config.sacrifice_sound_max_win_loss

\* line 541
DeepVerified(deep_eval) ==
    DeepDelta(deep_eval) < config.sacrifice_sound_max_win_loss

\* lines 509-546: engine_interface.evaluate returns deep_eval
VerifyReturn(deep_eval) ==
    /\ pc = "verify"
    /\ evaluate_calls' = Append(evaluate_calls,
          [move_uci |-> MoveUci, depth |-> VerifyDepth, raised |-> FALSE,
           result |-> deep_eval])
    /\ IF DeepVerified(deep_eval)
       THEN /\ verified_sound' = TRUE
            /\ comments' = comments
       ELSE /\ verified_sound' = verified_sound
            /\ comments' = Append(comments,
                  <<"Sacrifice unsound at depth", VerifyDepth,
                    PyRound(DeepDelta(deep_eval), 100)>>)
    /\ pc' = "classify"
    /\ UNCHANGED <<helpers, inputs, analysis_id_base, cp_val_before, win_before,
                   mate_val_before, material_before_cp, is_forced_position,
                   processed_moves, best_move_cp_score, best_move_win_percent,
                   idx, is_sac_candidate, sac_type, is_unverified, results,
                   call_no, returned>>

\* a slip: no try/except around the call, the exception leaves the function
VerifyRaise_Propagates ==
    /\ pc = "verify"
    /\ evaluate_calls' = Append(evaluate_calls,
          [move_uci |-> MoveUci, depth |-> VerifyDepth, raised |-> TRUE,
           result |-> <<>>])
    /\ returned' = Append(returned,
          [raised |-> TRUE, value |-> <<>>, calls |-> evaluate_calls'])
    /\ pc' = "done"
    /\ UNCHANGED <<helpers, inputs, analysis_id_base, cp_val_before, win_before,
                   mate_val_before, material_before_cp, is_forced_position,
                   processed_moves, best_move_cp_score, best_move_win_percent,
                   idx, is_sac_candidate, sac_type, verified_sound,
                   is_unverified, comments, results, call_no>>

\* lines 509-518, 548-551: engine_interface.evaluate raises
VerifyRaise ==
    /\ pc = "verify"
    /\ evaluate_calls' = Append(evaluate_calls,
          [move_uci |-> MoveUci, depth |-> VerifyDepth, raised |-> TRUE,
           result |-> <<>>])
    /\ is_unverified' = TRUE
    /\ comments' = Append(comments, <<"Verification failed">>)
    /\ pc' = "classify"
    /\ UNCHANGED <<helpers, inputs, analysis_id_base, cp_val_before, win_before,
                   mate_val_before, material_before_cp, is_forced_position,
                   processed_moves, best_move_cp_score, best_move_win_percent,
                   idx, is_sac_candidate, sac_type, verified_sound, results,
                   call_no, returned>>

----------------------------------------------------------------------------
(* The second pass: classification, scoring, assembly *)

\* a slip: the outcome of the verification is not consulted
SacVerified_IgnoresVerification == is_sac_candidate /\ ~is_forced_position

\* line 562
SacVerified == is_sac_candidate /\ verified_sound /\ ~is_forced_position

\* line 573: the win values of sorted(processed_moves, key=win, reverse=True)
RECURSIVE InsertDesc(_, _)
InsertDesc(sorted, w) ==
    IF sorted = <<>> THEN <<w>>
    ELSE IF w > Head(sorted) THEN <<w>> \o sorted
    ELSE <<Head(sorted)>> \o InsertDesc(Tail(sorted), w)

RECURSIVE SortedWins(_, _)
SortedWins(pm, k) ==
    IF k = 0 THEN <<>> ELSE InsertDesc(SortedWins(pm, k - 1), pm[k].win)

\* a slip: the loss is compared with the wrong boundary
OnlyGoodMove_LossBelowGood ==
    /\ ~SacVerified
    /\ ~is_forced_position
    /\ EffectiveLoss < delta_good
    /\ LET sorted_moves == SortedWins(processed_moves, Len(processed_moves))
       IN  /\ Len(sorted_moves) > 1
           /\ Abs(WinAfter - sorted_moves[1]) < 1000
           /\ sorted_moves[1] - sorted_moves[2] > 20000
           /\ sorted_moves[1] > 50000

\* a slip: the candidate is not compared with the top of the batch
OnlyGoodMove_NotTop ==
    /\ ~SacVerified
    /\ ~is_forced_position
    /\ EffectiveLoss < delta_excellent
    /\ LET sorted_moves == SortedWins(processed_moves, Len(processed_moves))
       IN  /\ Len(sorted_moves) > 1
           /\ sorted_moves[1] - sorted_moves[2] > 20000
           /\ sorted_moves[1] > 50000

\* lines 567-583
OnlyGoodMove ==
    /\ ~SacVerified
    /\ ~is_forced_position
    /\ EffectiveLoss < delta_excellent
    /\ LET sorted_moves == SortedWins(processed_moves, Len(processed_moves))
       IN  /\ Len(sorted_moves) > 1
           /\ Abs(WinAfter - sorted_moves[1]) < 1000
           /\ sorted_moves[1] - sorted_moves[2] > 20000
           /\ sorted_moves[1] > 50000

\* lines 597-605
NormalizedMateAfter ==
    LET raw_mate_after ==
            Get(Get(MoveData, "engine_eval_after", <<>>), "mate", None)
    IN  IF raw_mate_after # None
        THEN Some(normalize_mate(Val(raw_mate_after), returns_white_pov,
                                 side_to_move_white))
        ELSE None

\* a slip: the mate before is read as the engine gave it, not normalized
IsMateMissed_RawBefore ==
    /\ eval_before.mate # None
    /\ Val(eval_before.mate) > 0
    /\ (NormalizedMateAfter = None \/ Val(NormalizedMateAfter) <= 0)

\* lines 607-613
IsMateMissed ==
    /\ eval_before.mate # None
    /\ Val(mate_val_before) > 0
    /\ (NormalizedMateAfter = None \/ Val(NormalizedMateAfter) <= 0)

\* lines 616-617
IsMateThreat == NormalizedMateAfter # None /\ Val(NormalizedMateAfter) < 0

\* line 628
PreservesWin100 == win_before > 99000 /\ WinAfter > 99000

\* line 641
EngClass == classify_by_delta(EffectiveLoss)

BookDubious == EffectiveLoss > book_dubious_threshold

\* a slip: the book rule is consulted before the sacrifice rule
FinalClass_BookFirst ==
    IF is_forced_position THEN "Forced"
    ELSE IF IsBook
         THEN (IF BookDubious /\ EngClass \in {"Mistake", "Blunder"}
               THEN EngClass ELSE "Book")
    ELSE IF SacVerified THEN sac_type
    ELSE IF OnlyGoodMove THEN "Great"
    ELSE IF IsTiedBest THEN "Best"
    ELSE IF PreservesWin100 THEN "Best"
    ELSE classify_by_delta(EffectiveLoss)

\* a slip: a dubious book move keeps the label Book
FinalClass_DubiousBookKept ==
    IF SacVerified THEN sac_type
    ELSE IF OnlyGoodMove THEN "Great"
    ELSE IF is_forced_position THEN "Forced"
    ELSE IF IsBook THEN "Book"
    ELSE IF IsTiedBest THEN "Best"
    ELSE IF PreservesWin100 THEN "Best"
    ELSE classify_by_delta(EffectiveLoss)

\* a slip: the tie rule is consulted before the book rule
FinalClass_TieFirst ==
    IF SacVerified THEN sac_type
    ELSE IF OnlyGoodMove THEN "Great"
    ELSE IF is_forced_position THEN "Forced"
    ELSE IF IsTiedBest THEN "Best"
    ELSE IF IsBook
         THEN (IF BookDubious /\ EngClass \in {"Mistake", "Blunder"}
               THEN EngClass ELSE "Book")
    ELSE IF PreservesWin100 THEN "Best"
    ELSE classify_by_delta(EffectiveLoss)

\* a slip: the book rule is consulted before the forced rule
FinalClass_BookBeforeForced ==
    IF SacVerified THEN sac_type
    ELSE IF OnlyGoodMove THEN "Great"
    ELSE IF IsBook
         THEN (IF BookDubious /\ EngClass \in {"Mistake", "Blunder"}
               THEN EngClass ELSE "Book")
    ELSE IF is_forced_position THEN "Forced"
    ELSE IF IsTiedBest THEN "Best"
    ELSE IF PreservesWin100 THEN "Best"
    ELSE classify_by_delta(EffectiveLoss)

\* lines 556-662: final_class
FinalClass ==
    IF SacVerified THEN sac_type
    ELSE IF OnlyGoodMove THEN "Great"
    ELSE IF is_forced_position THEN "Forced"
    ELSE IF IsBook
         THEN (IF BookDubious /\ EngClass \in {"Mistake", "Blunder"}
               THEN EngClass ELSE "Book")
    ELSE IF IsTiedBest THEN "Best"
    ELSE IF PreservesWin100 THEN "Best"
    ELSE classify_by_delta(EffectiveLoss)

\* the comments appended in section 6 (583, 633, 644, 672); a formatted
\* number {x:.1f} is kept as the number of tenths
ClassComments ==
    IF SacVerified THEN <<>>
    ELSE IF OnlyGoodMove THEN << <<"Found the only good move.">> >>
    ELSE IF is_forced_position THEN << <<"Only legal move.">> >>
    ELSE IF IsBook
         THEN (IF BookDubious
               THEN << <<"Book (dubious): loses", PyRound(EffectiveLoss, 100)>> >>
               ELSE <<>>)
    ELSE IF IsTiedBest \/ PreservesWin100 THEN <<>>
    ELSE IF win_before < 5000 /\ FinalClass \in {"Blunder", "Mistake"}
         THEN << <<"Already lost">> >>
    ELSE <<>>

\* lines 642-643, 652: what the book branch writes into analysis_meta
BookMeta ==
    IF SacVerified \/ OnlyGoodMove \/ is_forced_position \/ ~IsBook THEN <<>>
    ELSE IF BookDubious
         THEN [book_health |-> "dubious", engine_classification |-> EngClass]
         ELSE [book_health |-> "ok"]

\* lines 711-718
AnalysisMeta ==
    BookMeta
    @@ [original_rank |-> Get(MoveData, "engine_rank", 99),
        is_sac_candidate |-> is_sac_candidate,
        verified_sound |-> verified_sound]
    @@ (IF is_sac_candidate
        THEN [sac_type |-> sac_type, verified |-> verified_sound]
        ELSE <<>>)

\* lines 685-689, in tenths; the depth is an integer here
StabilityVal ==
    IF Val(DepthInput) >= default_depth + 2 THEN 8
    ELSE IF Val(DepthInput) < 10 THEN 2
    ELSE 5

\* line 691: int(5 * stability_val)
StabilityBonus == (5 * StabilityVal) \div 10

\* lines 677-696, in ten-thousandths of a point
AccuracyRaw ==
    (1000000 - Abs(WinDelta) * scale_by_position(win_before))
    + (IF IsBook THEN 20000 ELSE 0)
    + StabilityBonus * 10000
    - Max(0, -MaterialDelta) * material_penalty_per_cp

\* a slip: the rounded value is not clamped
Accuracy_NoClamp == PyRound(AccuracyRaw, 10000)

\* line 697
Accuracy == Max(0, Min(100, PyRound(AccuracyRaw, 10000)))

\* a slip: the engine's first rank stands in for the tie, as the comment
\* above line 701 has it
Confidence_RankZero ==
    IF /\ StabilityVal >= 8
       /\ Val(DepthInput) >= default_depth + 2
       /\ Get(MoveData, "engine_rank", 99) = 0
    THEN "high"
    ELSE IF StabilityVal >= 5 THEN "medium"
    ELSE "low"

\* lines 702-706
Confidence ==
    IF StabilityVal >= 8 /\ Val(DepthInput) >= default_depth + 2 /\ IsTiedBest
    THEN "high"
    ELSE IF StabilityVal >= 5 THEN "medium"
    ELSE "low"

\* lines 721-748
MoveAnalysis ==
    [analysis_id |-> <<analysis_id_base, MoveUci>>,
     move_uci |-> MoveUci,
     engine_rank |-> Get(MoveData, "engine_rank", 99),
     cp_before |-> cp_val_before,
     cp_after |-> CpAfter,
     win_before |-> win_before,
     win_after |-> WinAfter,
     win_delta |-> WinDelta,
     material_before_cp |-> material_before_cp,
     material_after_cp |-> MaterialAfter,
     material_delta_cp |-> MaterialDelta,
     non_pawn_piece_loss |-> NonPawnLoss,
     is_capture |-> Get(MoveData, "is_capture", FALSE),
     is_forced |-> is_forced_position,
     is_book_move |-> IsBook,
     is_mate_missed |-> IsMateMissed,
     is_mate_threat |-> IsMateThreat,
     classification |-> FinalClass,
     accuracy |-> Accuracy,
     classification_confidence |-> Confidence,
     comments |-> comments \o ClassComments,
     analysis_meta |-> AnalysisMeta]

\* lines 553-750: the rest of one iteration.  With a null depth the comparison
\* of line 686 raises TypeError, which nothing in the function catches.
Classify ==
    /\ pc = "classify"
    /\ IF DepthInput = None
       THEN /\ returned' = Append(returned,
                  [raised |-> TRUE, value |-> <<>>, calls |-> evaluate_calls])
            /\ pc' = "done"
            /\ UNCHANGED <<results, idx>>
       ELSE /\ results' = Append(results, MoveAnalysis)
            /\ idx' = idx + 1
            /\ pc' = IF idx = Len(processed_moves) THEN "return"
                     ELSE "second_pass"
            /\ UNCHANGED returned
    /\ UNCHANGED <<helpers, inputs, analysis_id_base, cp_val_before, win_before,
                   mate_val_before, material_before_cp, is_forced_position,
                   processed_moves, best_move_cp_score, best_move_win_percent,
                   is_sac_candidate, sac_type, verified_sound, is_unverified,
                   comments, evaluate_calls, call_no>>

\* line 757
Return ==
    /\ pc = "return"
    /\ returned' = Append(returned,
          [raised |-> FALSE, value |-> results, calls |-> evaluate_calls])
    /\ pc' = "done"
    /\ UNCHANGED <<helpers, inputs, locals, evaluate_calls, call_no>>

----------------------------------------------------------------------------
(* The caller: the inputs of a call *)

\* the largest batch of candidates
MaxCands == 2

MoveNames == <<"e2e4", "d2d4", "g1f3", "c2c4", "b1c3">>

\* the mover's pieces on the board before the move
OwnCounts == [s \in Pieces |-> CASE s = "P" -> 8 [] s = "Q" -> 1 [] OTHER -> 2]

\* a value seen from the mover, as the engine reports it
ToEngine(o, pov, stm_white) ==
    IF o = None THEN None
    ELSE IF pov /\ ~stm_white THEN Some(-Val(o)) ELSE o

\* server.py 264-275: the dict {'cp':, 'mate':, 'depth':} of a candidate;
\* depth is <<"missing">>, <<"null">> or <<"int", d>>
EvalAfterDict(ev, depth, pov, stm_white) ==
    [cp |-> ToEngine(ev.cp, pov, stm_white),
     mate |-> ToEngine(ev.mate, pov, stm_white)]
    @@ (CASE depth[1] = "missing" -> <<>>
          [] depth[1] = "null" -> [depth |-> None]
          [] OTHER -> [depth |-> Some(depth[2])])

\* the material snapshot a caller may pass with a candidate: none (the board
\* is counted), or the mover's pieces less a pawn, less a rook, or a dict
\* with a lower-case key and many queens
MaterialAfterOf(mat) ==
    CASE mat = "board" -> <<>>
      [] mat = "pawn" -> [OwnCounts EXCEPT !["P"] = @ - 1]
      [] mat = "rook" -> [OwnCounts EXCEPT !["R"] = @ - 1]
      [] mat = "queens" -> [q |-> 30, K |-> 1]

\* server.py 271-279 and the optional 'material_after'
MoveDataOf(prof, i, pov, stm_white) ==
    [move_uci |-> MoveNames[i],
     engine_rank |-> i - 1,
     engine_eval_after |-> EvalAfterDict(prof.ev, prof.depth, pov, stm_white),
     is_capture |-> (prof.trade # "none")]
    @@ (IF prof.mat = "board" THEN <<>>
        ELSE [material_after |-> MaterialAfterOf(prof.mat)])

\* what the board answers about a move: the mover's pieces after it (a move
\* costs the mover nothing at once), is_capture, the piece types on the
\* destination and origin squares, is_attacked_by(opponent, destination) on
\* the board before the move, which is what the analyzer asks, and the same
\* question on the board after the move, which it never asks. A capture
\* leaves every attacker of its destination in place and opens no new
\* obstruction, so attacked implies attacked_after; the moved piece may
\* uncover a further attacker (QxP_discovered)
BoardFactsOf(prof) ==
    [own_after |-> OwnCounts,
     is_capture |-> (prof.trade # "none"),
     victim_pt |-> CASE prof.trade = "none" -> ""
                     [] prof.trade = "QxP" -> "P"
                     [] prof.trade = "QxP_safe" -> "P"
                     [] prof.trade = "QxP_discovered" -> "P"
                     [] prof.trade = "RxN" -> "N"
                     [] prof.trade = "NxR" -> "R"
                     [] prof.trade = "ep" -> "",
     attacker_pt |-> CASE prof.trade = "none" -> "N"
                       [] prof.trade = "QxP" -> "Q"
                       [] prof.trade = "QxP_safe" -> "Q"
                       [] prof.trade = "QxP_discovered" -> "Q"
                       [] prof.trade = "RxN" -> "R"
                       [] prof.trade = "NxR" -> "N"
                       [] prof.trade = "ep" -> "P",
     attacked |-> (prof.trade \in {"QxP", "RxN", "NxR"}),
     attacked_after |-> (prof.trade \in {"QxP", "QxP_discovered", "RxN", "NxR"})]

\* one candidate is drawn from Focus, the others from Plain: a candidate
\* reaches the verdict of another one only through its evaluation
InitInputsAt(Befores, Povs, Focus, Plain, Depths) ==
    \E n \in 1..MaxCands, f \in 1..MaxCands, fp \in Focus,
       others \in [1..MaxCands -> Plain],
       before \in Befores, pov \in Povs, stm_white \in BOOLEAN,
       depth \in Depths :
        LET prof(i) == IF i = f THEN fp ELSE others[i] IN
        /\ f <= n
        /\ side_to_move_white = stm_white
        /\ returns_white_pov = pov
        /\ default_depth = depth
        /\ eval_before = [cp |-> ToEngine(before.cp, pov, stm_white),
                          mate |-> ToEngine(before.mate, pov, stm_white),
                          material |-> before.material]
        /\ legal_moves_data =
             [i \in 1..n |-> MoveDataOf(prof(i), i, pov, stm_white)]
        /\ board_master =
             [own |-> OwnCounts,
              moves |-> [m \in {MoveNames[i] : i \in 1..n} |->
                  BoardFactsOf(prof(CHOOSE i \in 1..n : MoveNames[i] = m))]]
        /\ book_db = {MoveNames[i] : i \in {j \in 1..n : prof(j).book}}

\* server.py 213: the engine of the server searches to depth 12
InitInputs(Befores, Povs, Focus, Plain) ==
    InitInputsAt(Befores, Povs, Focus, Plain, {EngineDepth})

\* server.py 201-206: the counters of a game that has not begun; nothing
\* was converted
SideKeys == {"w", "b"}

StatKeys ==
    {"brilliant", "great", "critical", "best", "good", "book", "inaccuracy",
     "mistake", "miss", "blunder"}

OthersIdle ==
    /\ converted = <<>>
    /\ stats = [k \in SideKeys |-> [c \in StatKeys |-> 0]]
    /\ acc_totals = [k \in SideKeys |-> 0]
    /\ move_counts = [k \in SideKeys |-> 0]

\* no helper is called on its own
HelpersIdle ==
    /\ config = DEFAULT_CONFIG
    /\ classified = <<>>
    /\ shown = <<>>
    /\ book_cache = <<>>
    /\ lookups = <<>>
    /\ OthersIdle

AnalyzerStart ==
    /\ pc = "start"
    /\ analysis_id_base = 0
    /\ cp_val_before = 0
    /\ win_before = 0
    /\ mate_val_before = None
    /\ material_before_cp = 0
    /\ is_forced_position = FALSE
    /\ processed_moves = <<>>
    /\ best_move_cp_score = None
    /\ best_move_win_percent = 0
    /\ idx = 0
    /\ is_sac_candidate = FALSE
    /\ sac_type = ""
    /\ verified_sound = FALSE
    /\ is_unverified = FALSE
    /\ comments = <<>>
    /\ results = <<>>
    /\ evaluate_calls = <<>>
    /\ call_no = 1
    /\ returned = <<>>

InitLocals == AnalyzerStart /\ HelpersIdle

\* evaluations seen from the mover
Cp(c) == [cp |-> Some(c), mate |-> None]
Mate(m) == [cp |-> None, mate |-> Some(m)]
NoEval == [cp |-> None, mate |-> None]

\* what the engine may answer to the deeper evaluation, seen from the mover
DeepAnswers == {Cp(50), Cp(-50), Mate(-2)}

CallEvaluate ==
    \/ \E a \in DeepAnswers :
          VerifyReturn([cp |-> ToEngine(a.cp, returns_white_pov,
                                        side_to_move_white),
                        mate |-> ToEngine(a.mate, returns_white_pov,
                                          side_to_move_white)])
    \/ VerifyRaise

(* Spec: one call; the candidates differ in evaluation, material, book
   status and capture *)
AfterEvals == {Cp(50), NoEval, Cp(-50), Cp(-250)}

FocusProfiles ==
    [ev : AfterEvals, depth : {<<"int", 14>>, <<"null">>},
     mat : {"board", "pawn", "rook"}, book : BOOLEAN, trade : {"none", "QxP"}]

PlainProfiles ==
    [ev : AfterEvals, depth : {<<"int", 14>>}, mat : {"board"},
     book : {FALSE}, trade : {"none"}]

BeforeEvals ==
    {[cp |-> Some(50), mate |-> None, material |-> <<>>],
     [cp |-> None, mate |-> None, material |-> <<>>],
     [cp |-> None, mate |-> Some(2), material |-> <<>>]}

Init ==
    /\ InitInputs(BeforeEvals, BOOLEAN, FocusProfiles, PlainProfiles)
    /\ InitLocals

Next ==
    \/ Begin
    \/ FirstPass
    \/ SecondPassBegin
    \/ CallEvaluate
    \/ Classify
    \/ Return

Spec == Init /\ [][Next]_vars

(* SpecScore: one call; the candidates differ in depth, material snapshot
   and book status, and the caller may pass its own material counts *)
ScoreEvals == {Cp(50), NoEval, Cp(-250)}

ScoreFocus ==
    [ev : ScoreEvals,
     depth : {<<"missing">>, <<"null">>, <<"int", 8>>, <<"int", 12>>,
              <<"int", 14>>},
     mat : {"board", "rook", "queens"}, book : BOOLEAN, trade : {"none"}]

ScorePlain ==
    [ev : ScoreEvals, depth : {<<"int", 14>>}, mat : {"board"},
     book : {FALSE}, trade : {"none"}]

ScoreBefores ==
    {[cp |-> Some(50), mate |-> None, material |-> <<>>],
     [cp |-> None, mate |-> None, material |-> [Q |-> 20, k |-> 1]],
     [cp |-> None, mate |-> Some(2), material |-> <<>>]}

InitScore ==
    /\ InitInputs(ScoreBefores, {TRUE}, ScoreFocus, ScorePlain)
    /\ InitLocals

SpecScore == InitScore /\ [][Next]_vars

(* SpecTwice: the caller calls the function again with the same arguments;
   the engine may answer the same or differently *)
MaxCalls == 2

CallAgain ==
    /\ pc = "done"
    /\ call_no < MaxCalls
    /\ call_no' = call_no + 1
    /\ pc' = "start"
    /\ UNCHANGED <<helpers, inputs, locals, evaluate_calls, returned>>

\* the candidate whose verification is followed: a sound sacrifice, a lost
\* position, a book capture that offers the queen
TwiceProfiles ==
    [ev : {Cp(50), Cp(-250)}, depth : {<<"int", 14>>},
     mat : {"board", "rook"}, book : {FALSE}, trade : {"none"}]
    \cup
    [ev : {Cp(50)}, depth : {<<"null">>, <<"int", 8>>},
     mat : {"board"}, book : {TRUE}, trade : {"QxP"}]

\* the candidates around it give up nothing
TwicePlain ==
    [ev : {Cp(50), Cp(-250)}, depth : {<<"int", 14>>},
     mat : {"board"}, book : {FALSE}, trade : {"none"}]
    \cup
    [ev : {Cp(50)}, depth : {<<"int", 8>>},
     mat : {"board"}, book : {TRUE}, trade : {"none"}]

TwiceBefores == {[cp |-> Some(50), mate |-> None, material |-> <<>>]}

InitTwice ==
    /\ InitInputs(TwiceBefores, {TRUE}, TwiceProfiles, TwicePlain)
    /\ InitLocals

NextTwice == Next \/ CallAgain

SpecTwice == InitTwice /\ [][NextTwice]_vars

----------------------------------------------------------------------------
(* Vocabulary of the properties: facts about a verdict r of the batch, read
   from the verdict, the arguments and the record of the engine calls *)

NumCands == Len(legal_moves_data)

LossOf(r) == Max(0, r.win_before - r.win_after)

TopCp ==
    CHOOSE c \in {processed_moves[j].cp : j \in 1..Len(processed_moves)} :
        \A j \in 1..Len(processed_moves) : processed_moves[j].cp <= c

TopWin ==
    CHOOSE w \in {processed_moves[j].win : j \in 1..Len(processed_moves)} :
        \A j \in 1..Len(processed_moves) : processed_moves[j].win <= w

\* the second-highest win% of the batch, counting a shared first place
SecondWin ==
    IF Cardinality({j \in 1..Len(processed_moves) :
                       processed_moves[j].win = TopWin}) >= 2
    THEN TopWin
    ELSE CHOOSE w \in {processed_moves[j].win : j \in 1..Len(processed_moves)} :
            /\ w < TopWin
            /\ \A j \in 1..Len(processed_moves) :
                  processed_moves[j].win < TopWin => processed_moves[j].win <= w

TiedForBest(r) ==
    \/ Abs(r.cp_after - TopCp) <= tie_cp_eps
    \/ Abs(r.win_after - TopWin) <= tie_win_eps

OnlyGood(r) ==
    /\ NumCands > 1
    /\ LossOf(r) < delta_excellent
    /\ Abs(r.win_after - TopWin) < 1000
    /\ TopWin - SecondWin > 20000
    /\ TopWin > 50000

TradeDeltaOf(r) ==
    LET b == board_master.moves[r.move_uci]
    IN  piece_values[b.victim_pt] - piece_values[b.attacker_pt]

TradeSacrifice(r) ==
    LET b == board_master.moves[r.move_uci]
    IN  /\ b.is_capture /\ b.victim_pt # "" /\ b.attacker_pt # ""
        /\ b.attacked
        /\ TradeDeltaOf(r) <= -pawn_sacrifice_cp

SacCandidate(r) ==
    /\ NumCands > 1
    /\ TiedForBest(r)
    /\ (r.material_delta_cp <= -pawn_sacrifice_cp \/ TradeSacrifice(r))

CallsFor(m) ==
    {k \in 1..Len(evaluate_calls) : evaluate_calls[k].move_uci = m}

\* the deeper evaluation of r came back and kept the loss under the threshold
DeepSound(r) ==
    \E k \in CallsFor(r.move_uci) :
        /\ ~evaluate_calls[k].raised
        /\ DeepDelta(evaluate_calls[k].result) < config.sacrifice_sound_max_win_loss

\* the deeper evaluation of r came back and refuted the sacrifice
DeepRefuted(r) ==
    \E k \in CallsFor(r.move_uci) :
        /\ ~evaluate_calls[k].raised
        /\ DeepDelta(evaluate_calls[k].result) >= config.sacrifice_sound_max_win_loss

DeepRaised(r) ==
    \E k \in CallsFor(r.move_uci) : evaluate_calls[k].raised

HasComment(r, text) ==
    \E k \in 1..Len(r.comments) : r.comments[k][1] = text

----------------------------------------------------------------------------
(* C1: in a batch of more than one candidate, a tied-for-best candidate whose
   material delta is <= -big_sacrifice_cp (resp. only <= -pawn_sacrifice_cp),
   whose shallow loss is below sacrifice_sound_max_win_loss and whose deeper
   evaluation keeps the clamped loss below it, is labelled Brilliant (resp.
   Great), whatever the book, only-good-move and tie rules would say. *)
C1_SoundSacrificeLabelled ==
    \A i \in 1..Len(results) :
        LET r == results[i] IN
        ( /\ NumCands > 1
          /\ TiedForBest(r)
          /\ r.material_delta_cp <= -pawn_sacrifice_cp
          /\ LossOf(r) < config.sacrifice_sound_max_win_loss
          /\ DeepSound(r) )
        => r.classification =
              IF r.material_delta_cp <= -big_sacrifice_cp
              THEN "Brilliant" ELSE "Great"

\* a sound rook sacrifice that is also a book move and the only good move
C1_Witness ==
    \E i \in 1..Len(results) :
        LET r == results[i] IN
        /\ NumCands > 1
        /\ TiedForBest(r)
        /\ r.material_delta_cp <= -big_sacrifice_cp
        /\ LossOf(r) < config.sacrifice_sound_max_win_loss
        /\ DeepSound(r)
        /\ r.is_book_move
        /\ OnlyGood(r)
        /\ r.classification = "Brilliant"

(* C2, as claimed: a book move whose loss exceeds book_dubious_threshold and
   falls in the Mistake or Blunder bucket is labelled with that bucket, and
   analysis_meta.engine_classification carries it, whatever the number of
   candidates. *)
C2_AnyBatchSize ==
    \A i \in 1..Len(results) :
        LET r == results[i] IN
        ( /\ r.is_book_move
          /\ LossOf(r) > book_dubious_threshold
          /\ classify_by_delta(LossOf(r)) \in {"Mistake", "Blunder"} )
        => /\ r.classification = classify_by_delta(LossOf(r))
           /\ "engine_classification" \in DOMAIN r.analysis_meta
           /\ r.analysis_meta["engine_classification"]
                = classify_by_delta(LossOf(r))

(* C2, amended: the same for every batch of more than one candidate (the
   only candidate of a batch is Forced). *)
C2_DubiousBookDowngraded ==
    \A i \in 1..Len(results) :
        LET r == results[i] IN
        ( /\ NumCands > 1
          /\ r.is_book_move
          /\ LossOf(r) > book_dubious_threshold
          /\ classify_by_delta(LossOf(r)) \in {"Mistake", "Blunder"} )
        => /\ r.classification = classify_by_delta(LossOf(r))
           /\ "engine_classification" \in DOMAIN r.analysis_meta
           /\ r.analysis_meta["engine_classification"]
                = classify_by_delta(LossOf(r))

\* a dubious book move that is tied for best and still graded Mistake
C2_Witness ==
    \E i \in 1..Len(results) :
        LET r == results[i] IN
        /\ NumCands > 1
        /\ r.is_book_move
        /\ TiedForBest(r)
        /\ r.classification = "Mistake"
        /\ r.analysis_meta["engine_classification"] = "Mistake"

(* C3, as claimed: a book move whose loss is at most book_dubious_threshold
   is labelled Book, whether or not it is tied for best, a sacrifice
   candidate or the only good move. *)
C3_AlwaysBook ==
    \A i \in 1..Len(results) :
        LET r == results[i] IN
        (r.is_book_move /\ LossOf(r) <= book_dubious_threshold)
        => r.classification = "Book"

(* C3, amended: such a book move is labelled Book whatever its tie status,
   unless it is the only candidate, a sacrifice verified sound, or the only
   good move of the batch. *)
C3_SoundBookIsBook ==
    \A i \in 1..Len(results) :
        LET r == results[i] IN
        ( /\ r.is_book_move
          /\ LossOf(r) <= book_dubious_threshold
          /\ NumCands > 1
          /\ ~(SacCandidate(r) /\ DeepSound(r))
          /\ ~OnlyGood(r) )
        => r.classification = "Book"

\* a book move tied for best whose sacrifice the deeper evaluation refuted
C3_Witness ==
    \E i \in 1..Len(results) :
        LET r == results[i] IN
        /\ r.is_book_move
        /\ LossOf(r) <= book_dubious_threshold
        /\ NumCands > 1
        /\ TiedForBest(r)
        /\ SacCandidate(r)
        /\ DeepRefuted(r)
        /\ r.classification = "Book"

(* C4: the only candidate of a batch has is_forced = true and the label
   Forced, whatever its evaluation, book status and material change. *)
C4_SingleCandidateForced ==
    \A i \in 1..Len(results) :
        NumCands = 1
        => results[i].is_forced /\ results[i].classification = "Forced"

\* the only candidate is a book move that gives up a rook
C4_Witness ==
    /\ NumCands = 1
    /\ Len(results) = 1
    /\ results[1].is_book_move
    /\ results[1].material_delta_cp <= -big_sacrifice_cp
    /\ results[1].classification = "Forced"

(* C5: engine_interface.evaluate is called exactly once, at depth
   default_depth + verification_depth_extra, for each candidate handled that
   is a sacrifice candidate with shallow loss below
   sacrifice_sound_max_win_loss, never for another candidate, and never a
   second time for a candidate, also after the call has raised. *)
C5_OneDeepEvaluation ==
    /\ \A i \in 1..Len(results) :
          LET r == results[i] IN
          Cardinality(CallsFor(r.move_uci)) =
             IF SacCandidate(r) /\ LossOf(r) < config.sacrifice_sound_max_win_loss
             THEN 1 ELSE 0
    /\ \A k \in 1..Len(evaluate_calls) :
          evaluate_calls[k].depth = default_depth + verification_depth_extra
    /\ \A j \in 1..NumCands :
          /\ Cardinality(CallsFor(legal_moves_data[j].move_uci)) <= 1
          /\ j > idx => CallsFor(legal_moves_data[j].move_uci) = {}

\* the call returned; the deeper evaluation of one candidate raised and was
\* not repeated
C5_Witness ==
    /\ pc = "done"
    /\ \E i \in 1..Len(results) :
          LET r == results[i] IN
          /\ SacCandidate(r)
          /\ LossOf(r) < config.sacrifice_sound_max_win_loss
          /\ DeepRaised(r)
          /\ Cardinality(CallsFor(r.move_uci)) = 1

----------------------------------------------------------------------------
(* Two calls with the same arguments *)

\* what the engine did for the candidate m during a finished call
AnswersFor(ret, m) ==
    {ret.calls[k] : k \in {n \in 1..Len(ret.calls) : ret.calls[n].move_uci = m}}

\* two verdicts that agree in every field but the analysis_id
SameButId(r1, r2) ==
    [r1 EXCEPT !.analysis_id = <<>>] = [r2 EXCEPT !.analysis_id = <<>>]

\* the pairs of finished calls that both returned a list
ReturnedPairs ==
    {p \in (1..Len(returned)) \X (1..Len(returned)) :
        p[1] < p[2] /\ ~returned[p[1]].raised /\ ~returned[p[2]].raised}

(* C6: when engine_interface.evaluate raises during the verification of a
   candidate, the function does not raise for it (it raises only on a null
   depth); the candidate's verdict has verified_sound = false and the
   comment "Verification failed", and is Brilliant or Great only as the only
   good move; every other candidate gets the verdict it gets in a call in
   which the engine answers that candidate as before. *)
C6_RaiseDegradesOneCandidate ==
    /\ \A i \in 1..Len(results) :
          LET r == results[i] IN
          DeepRaised(r)
          => /\ r.analysis_meta["verified_sound"] = FALSE
             /\ HasComment(r, "Verification failed")
             /\ r.classification # "Brilliant"
             /\ r.classification = "Great" => OnlyGood(r)
    /\ \A c \in 1..Len(returned) :
          returned[c].raised
          => \E j \in 1..NumCands :
                /\ "depth" \in DOMAIN legal_moves_data[j].engine_eval_after
                /\ legal_moves_data[j].engine_eval_after["depth"] = None
                /\ \A k \in 1..Len(returned[c].calls) :
                      returned[c].calls[k].move_uci
                         \in {legal_moves_data[n].move_uci : n \in 1..j}
    /\ \A p \in ReturnedPairs :
          \A j \in 1..NumCands :
             LET m == legal_moves_data[j].move_uci IN
             AnswersFor(returned[p[1]], m) = AnswersFor(returned[p[2]], m)
             => SameButId(returned[p[1]].value[j], returned[p[2]].value[j])

\* evaluate raised for a candidate in the first call and confirmed its
\* sacrifice in the second; the candidate after it has the same verdict
C6_Witness ==
    /\ Len(returned) = 2
    /\ ~returned[1].raised
    /\ ~returned[2].raised
    /\ \E i, j \in 1..NumCands :
          LET m == legal_moves_data[i].move_uci IN
          /\ i < j
          /\ \E c \in AnswersFor(returned[1], m) : c.raised
          /\ \E c \in AnswersFor(returned[2], m) : ~c.raised
          /\ returned[1].value[i].classification = "Best"
          /\ HasComment(returned[1].value[i], "Verification failed")
          /\ returned[2].value[i].classification = "Brilliant"
          /\ SameButId(returned[1].value[j], returned[2].value[j])

(* C7, as claimed: for every non-empty batch, also with candidates that have
   no cp, no mate, or a missing or null depth, the call returns without
   raising one verdict per candidate, in the order of the candidates, and a
   candidate with neither cp nor mate is evaluated as cp = 0. *)
C7_AlwaysCompleteBatch ==
    pc = "done"
    => LET ret == returned[Len(returned)] IN
       /\ ~ret.raised
       /\ Len(ret.value) = NumCands
       /\ \A i \in 1..NumCands :
             /\ ret.value[i].move_uci = legal_moves_data[i].move_uci
             /\ ( /\ Get(legal_moves_data[i].engine_eval_after, "cp", None) = None
                  /\ Get(legal_moves_data[i].engine_eval_after, "mate", None) = None )
                => ret.value[i].cp_after = 0

(* C8, as claimed: two calls with the same arguments, to which the engine
   answers alike, return lists equal field by field. *)
C8_EqualFieldByField ==
    \A p \in ReturnedPairs :
        returned[p[1]].calls = returned[p[2]].calls
        => returned[p[1]].value = returned[p[2]].value

(* C8, amended: such calls return lists equal in every field but the
   analysis_id, which starts with a fresh uuid4 in each call. *)
C8_EqualButAnalysisId ==
    \A p \in ReturnedPairs :
        returned[p[1]].calls = returned[p[2]].calls
        => /\ Len(returned[p[1]].value) = Len(returned[p[2]].value)
           /\ \A i \in 1..Len(returned[p[1]].value) :
                 SameButId(returned[p[1]].value[i], returned[p[2]].value[i])

\* two calls to which the engine answered alike, under two identifiers
C8_Witness ==
    /\ Len(returned) = 2
    /\ ~returned[1].raised
    /\ ~returned[2].raised
    /\ returned[1].calls # <<>>
    /\ returned[1].calls = returned[2].calls
    /\ returned[1].value[1].analysis_id # returned[2].value[1].analysis_id

(* C9: every verdict has an integer accuracy between 0 and 100, for every
   win% before and after, material delta, depth and book status. *)
C9_AccuracyInRange ==
    \A i \in 1..Len(results) : results[i].accuracy \in 0..100

\* one batch with a verdict at each end of the range: a huge material loss,
\* and a book move at full depth that gains material
C9_Witness ==
    \E i, j \in 1..Len(results) :
        /\ results[i].accuracy = 0
        /\ results[i].material_delta_cp < -10000
        /\ results[j].accuracy = 100
        /\ results[j].is_book_move
        /\ results[j].classification_confidence = "high"
        /\ results[j].material_delta_cp > 0

(* C10, as claimed: a sacrifice candidate with shallow loss below the
   threshold that the deeper evaluation refutes is not Brilliant, is
   labelled by the win%-loss bucket of its loss, and carries the comment
   "Sacrifice unsound at depth ...". *)
C10_RefutedGetsBucket ==
    \A i \in 1..Len(results) :
        LET r == results[i] IN
        ( /\ SacCandidate(r)
          /\ LossOf(r) < config.sacrifice_sound_max_win_loss
          /\ DeepRefuted(r) )
        => /\ r.classification # "Brilliant"
           /\ r.classification = classify_by_delta(LossOf(r))
           /\ HasComment(r, "Sacrifice unsound at depth")

(* C10, amended: such a candidate is not Brilliant, carries the comment, and
   is labelled by the rules that follow the sacrifice rule: Great as the
   only good move, else Book as a book move, else Best, being tied for
   best; the bucket of its loss is not consulted. *)
C10_RefutedFallsThrough ==
    \A i \in 1..Len(results) :
        LET r == results[i] IN
        ( /\ SacCandidate(r)
          /\ LossOf(r) < config.sacrifice_sound_max_win_loss
          /\ DeepRefuted(r) )
        => /\ r.classification # "Brilliant"
           /\ r.classification =
                 IF OnlyGood(r) THEN "Great"
                 ELSE IF r.is_book_move THEN "Book"
                 ELSE "Best"
           /\ HasComment(r, "Sacrifice unsound at depth")

\* a refuted sacrifice labelled Best whose loss is in the bucket Good
C10_Witness ==
    \E i \in 1..Len(results) :
        LET r == results[i] IN
        /\ SacCandidate(r)
        /\ LossOf(r) < config.sacrifice_sound_max_win_loss
        /\ DeepRefuted(r)
        /\ r.classification = "Best"
        /\ classify_by_delta(LossOf(r)) = "Good"
        /\ HasComment(r, "Sacrifice unsound at depth")

----------------------------------------------------------------------------
(* SpecBuckets: classify_by_delta called on its own, with the default Config
   and with Configs whose boundaries are in any order *)

\* the function is not running
AnalyzerIdle ==
    /\ side_to_move_white = TRUE
    /\ returns_white_pov = TRUE
    /\ default_depth = EngineDepth
    /\ eval_before = [cp |-> None, mate |-> None, material |-> <<>>]
    /\ legal_moves_data = <<>>
    /\ board_master = [own |-> OwnCounts, moves |-> <<>>]
    /\ book_db = {}
    /\ pc = "idle"
    /\ analysis_id_base = 0
    /\ cp_val_before = 0
    /\ win_before = 0
    /\ mate_val_before = None
    /\ material_before_cp = 0
    /\ is_forced_position = FALSE
    /\ processed_moves = <<>>
    /\ best_move_cp_score = None
    /\ best_move_win_percent = 0
    /\ idx = 0
    /\ is_sac_candidate = FALSE
    /\ sac_type = ""
    /\ verified_sound = FALSE
    /\ is_unverified = FALSE
    /\ comments = <<>>
    /\ results = <<>>
    /\ evaluate_calls = <<>>
    /\ call_no = 0
    /\ returned = <<>>

\* the most losses classified in a row
MaxClassified == 2

\* the boundaries of the default Config, their neighbours, and the ends
LossValues ==
    {0, 999, 1000, 1001, 2999, 3000, 3001, 4999, 5000, 5001,
     8999, 9000, 9001, 19999, 20000, 20001, 100000}

\* what a boundary of a Config may be
BoundaryValues == {1000, 5000}

\* the default boundaries in another order: rotated by n places, or reversed
DefaultBoundaries ==
    <<delta_best, delta_excellent, delta_good, delta_inaccuracy, delta_mistake>>

Rotated(n) == [i \in 1..5 |-> DefaultBoundaries[((i + n - 1) % 5) + 1]]

Reversed == [i \in 1..5 |-> DefaultBoundaries[6 - i]]

\* the Configs constructed: the default, every choice of two boundary values,
\* the default boundaries in another order, and the default boundaries with
\* a sigmoid_k that is zero or negative
Configs ==
    {DEFAULT_CONFIG}
    \cup {Config(b[1], b[2], b[3], b[4], b[5], sigmoid_k) :
             b \in [1..5 -> BoundaryValues] \cup {Rotated(n) : n \in 1..4}
                   \cup {Reversed}}
    \cup {[DEFAULT_CONFIG EXCEPT !.sigmoid_k = k] : k \in {0, -sigmoid_k}}

InitBuckets ==
    /\ AnalyzerIdle
    /\ config \in Configs
    /\ classified = <<>>
    /\ shown = <<>>
    /\ book_cache = <<>>
    /\ lookups = <<>>
    /\ OthersIdle

\* analyzer.py 234-235 take the Config as it is; 662 and 641 hand it to
\* classify_by_delta with the loss of a candidate
ClassifyLoss ==
    /\ Len(classified) < MaxClassified
    /\ \E loss \in LossValues :
          classified' = Append(classified,
              [loss |-> loss, bucket |-> classify_by_delta_with(loss, config)])
    /\ UNCHANGED <<analyzer, config, shown, book_cache, lookups, converted,
                   server>>

NextBuckets == ClassifyLoss

SpecBuckets == InitBuckets /\ [][NextBuckets]_vars

\* the bucket the table of the specification gives, in thousandths of a percent
TableBucket(loss) ==
    CASE loss <= 1000 -> "Best"
      [] 1000 < loss /\ loss <= 3000 -> "Excellent"
      [] 3000 < loss /\ loss <= 5000 -> "Good"
      [] 5000 < loss /\ loss <= 9000 -> "Inaccuracy"
      [] 9000 < loss /\ loss <= 20000 -> "Mistake"
      [] loss > 20000 -> "Blunder"

(* C11: with the default Config classify_by_delta returns Best for loss <= 1,
   Excellent for 1 < loss <= 3, Good for 3 < loss <= 5, Inaccuracy for
   5 < loss <= 9, Mistake for 9 < loss <= 20 and Blunder above 20; a
   boundary value belongs to the milder bucket. *)
C11_DefaultBuckets ==
    config = DEFAULT_CONFIG
    => \A k \in 1..Len(classified) :
          classified[k].bucket = TableBucket(classified[k].loss)

\* loss exactly 9.0 classified Inaccuracy, then loss exactly 20.0 Mistake
C11_Witness ==
    /\ config = DEFAULT_CONFIG
    /\ Len(classified) = 2
    /\ classified[1] = [loss |-> 9000, bucket |-> "Inaccuracy"]
    /\ classified[2] = [loss |-> 20000, bucket |-> "Mistake"]

\* the order of the buckets, from the mildest
Rank(bucket) ==
    CASE bucket = "Best" -> 0
      [] bucket = "Excellent" -> 1
      [] bucket = "Good" -> 2
      [] bucket = "Inaccuracy" -> 3
      [] bucket = "Mistake" -> 4
      [] bucket = "Blunder" -> 5

\* delta_best < delta_excellent < delta_good < delta_inaccuracy < delta_mistake
StrictlyIncreasing(cfg) ==
    /\ cfg.delta_best < cfg.delta_excellent
    /\ cfg.delta_excellent < cfg.delta_good
    /\ cfg.delta_good < cfg.delta_inaccuracy
    /\ cfg.delta_inaccuracy < cfg.delta_mistake

(* C12: classify_by_delta is monotonic: of two losses the smaller one never
   gets a worse bucket than the larger one, for the default boundaries and
   for every other choice of the five boundaries, also one that is not
   strictly increasing. *)
C12_Monotonic ==
    \A i, j \in 1..Len(classified) :
        classified[i].loss < classified[j].loss
        => Rank(classified[i].bucket) <= Rank(classified[j].bucket)

\* boundaries that are not strictly increasing, a smaller loss after a larger
\* one, and two different buckets
C12_Witness ==
    /\ ~StrictlyIncreasing(config)
    /\ config.delta_best > config.delta_excellent
    /\ Len(classified) = 2
    /\ classified[2].loss < classified[1].loss
    /\ Rank(classified[2].bucket) < Rank(classified[1].bucket)

(* C13, as claimed: a Config whose boundaries are not strictly increasing,
   or whose sigmoid_k is not positive, is rejected when it is constructed or
   when it is passed on: nothing is ever classified with it. *)
C13_InvalidConfigRejected ==
    (~StrictlyIncreasing(config) \/ config.sigmoid_k <= 0)
    => classified = <<>>

----------------------------------------------------------------------------
(* SpecLabels: one call; the candidates differ in evaluation around the tie
   margins, near a certain win and at mate, in material and in book status *)

LabelEvals == {Cp(50), Cp(40), Cp(30), Cp(-250), Cp(1300), Mate(1)}

LabelFocus ==
    [ev : LabelEvals, depth : {<<"int", 14>>}, mat : {"board", "rook"},
     book : BOOLEAN, trade : {"none"}]

LabelPlain ==
    [ev : LabelEvals, depth : {<<"int", 14>>}, mat : {"board"},
     book : {FALSE}, trade : {"none"}]

LabelBefores ==
    {[cp |-> Some(100), mate |-> None, material |-> <<>>],
     [cp |-> None, mate |-> None, material |-> <<>>],
     [cp |-> Some(1300), mate |-> None, material |-> <<>>],
     [cp |-> None, mate |-> Some(2), material |-> <<>>]}

InitLabels ==
    /\ InitInputs(LabelBefores, {TRUE}, LabelFocus, LabelPlain)
    /\ InitLocals

SpecLabels == InitLabels /\ [][Next]_vars

(* C14, as claimed: every verdict labelled Best, Brilliant or Great belongs
   to a candidate that is tied-for-best. *)
C14_TopLabelsNeedTie ==
    \A i \in 1..Len(results) :
        results[i].classification \in {"Best", "Brilliant", "Great"}
        => TiedForBest(results[i])

(* C14, amended: every verdict labelled Brilliant or Great belongs to a
   candidate that is tied-for-best; a verdict labelled Best belongs to a
   candidate that is tied-for-best or whose loss is at most delta_best (the
   first bucket, which holds every candidate that keeps win% above 99). *)
C14_TopLabelsTiedOrLossless ==
    \A i \in 1..Len(results) :
        LET r == results[i] IN
        /\ r.classification \in {"Brilliant", "Great"} => TiedForBest(r)
        /\ r.classification = "Best"
           => (TiedForBest(r) \/ LossOf(r) <= delta_best)

\* Best for a candidate that is not tied-for-best: it keeps a won position
\* won while another candidate mates
C14_Witness ==
    \E i \in 1..Len(results) :
        LET r == results[i] IN
        /\ NumCands > 1
        /\ r.classification = "Best"
        /\ ~TiedForBest(r)
        /\ r.win_before > 99000
        /\ r.win_after > 99000
        /\ r.win_after < TopWin

----------------------------------------------------------------------------
(* SpecBook: the opening book.  server.py ServerBookManager.in_book wraps
   book.py BookManager.is_book_move, which asks the masters database over
   the network and caches the answers it gets *)

\* ServerBookManager.in_book: fullmove_number > 5
server_move_limit == 5
\* BookManager.move_limit
move_limit == 20

\* the most lookups in a row
MaxLookups == 2

\* the opening corpus, unchanged: the moves the database holds per position
Corpus == [startpos |-> {"e2e4"}, offbeat |-> {}]

\* a position is its EPD and the fullmove number of its FEN
BookPositions == [epd : DOMAIN Corpus, fullmove_number : {5, 6, 21}]
BookMoves == {"e2e4", "a2a3"}

\* how requests.get ends: status 200 with the moves, another status, or an
\* exception (timeout, no connection, a body that is not the expected JSON)
RequestOutcomes == {"200", "status", "exception"}

\* BookManager.get_book_moves(fen) when the request ends with outcome:
\* the moves returned and the cache afterwards
get_book_moves(pos, outcome) ==
    LET key == pos.epd IN
    IF key \in DOMAIN book_cache
    THEN [moves |-> book_cache[key], cache |-> book_cache, request |-> "cached"]
    ELSE IF outcome = "200"
    THEN [moves |-> Corpus[pos.epd],
          cache |-> (key :> Corpus[pos.epd]) @@ book_cache,
          request |-> outcome]
    ELSE [moves |-> {}, cache |-> book_cache, request |-> outcome]

\* BookManager.is_book_move(board, move_uci)
is_book_move(pos, move_uci, outcome) ==
    IF pos.fullmove_number > move_limit
    THEN [answer |-> FALSE, cache |-> book_cache, request |-> "none"]
    ELSE LET got == get_book_moves(pos, outcome)
         IN  [answer |-> (move_uci \in got.moves), cache |-> got.cache,
              request |-> got.request]

\* ServerBookManager.in_book(fen, move_uci)
in_book(pos, move_uci, outcome) ==
    IF pos.fullmove_number > server_move_limit
    THEN [answer |-> FALSE, cache |-> book_cache, request |-> "none"]
    ELSE is_book_move(pos, move_uci, outcome)

\* one lookup and its record; every exception of the request is caught
\* inside get_book_moves, so a lookup always returns
Lookup(entry, pos, move_uci, outcome) ==
    LET out == IF entry = "in_book" THEN in_book(pos, move_uci, outcome)
               ELSE is_book_move(pos, move_uci, outcome)
    IN  /\ Len(lookups) < MaxLookups
        /\ book_cache' = out.cache
        /\ lookups' = Append(lookups,
              [entry |-> entry, pos |-> pos, move_uci |-> move_uci,
               request |-> out.request, answer |-> out.answer,
               raised |-> FALSE])
        /\ UNCHANGED <<analyzer, config, classified, shown, converted, server>>

InBook ==
    \E pos \in BookPositions, mv \in BookMoves, outcome \in RequestOutcomes :
        Lookup("in_book", pos, mv, outcome)

IsBookMove ==
    \E pos \in BookPositions, mv \in BookMoves, outcome \in RequestOutcomes :
        Lookup("is_book_move", pos, mv, outcome)

InitBook ==
    /\ AnalyzerIdle
    /\ config = DEFAULT_CONFIG
    /\ classified = <<>>
    /\ shown = <<>>
    /\ book_cache = <<>>
    /\ lookups = <<>>
    /\ OthersIdle

NextBook == InBook \/ IsBookMove

SpecBook == InitBook /\ [][NextBook]_vars

(* C15, as claimed: over any sequence of in_book / is_book_move calls
   against an unchanged corpus, in which each request may succeed or fail,
   every call for the same position and move returns the same boolean, no
   call raises, and a failed or non-200 request yields False. *)
C15_LookupIdempotent ==
    /\ \A i, j \in 1..Len(lookups) :
          ( /\ lookups[i].entry = lookups[j].entry
            /\ lookups[i].pos = lookups[j].pos
            /\ lookups[i].move_uci = lookups[j].move_uci )
          => lookups[i].answer = lookups[j].answer
    /\ \A i \in 1..Len(lookups) :
          /\ ~lookups[i].raised
          /\ lookups[i].request \in {"status", "exception"}
             => ~lookups[i].answer

----------------------------------------------------------------------------
(* SpecDisplay: the display helpers of move_analysis_to_json called on
   labels in the spelling of the analyzer, in lower case and in upper case *)

\* str.lower() on the labels displayed
LowerTable ==
    ("Brilliant"   :> "brilliant"  ) @@ ("BRILLIANT"   :> "brilliant"  ) @@ ("brilliant"   :> "brilliant")
    @@ ("Great"       :> "great"      ) @@ ("GREAT"       :> "great"      ) @@ ("great"       :> "great")
    @@ ("Best"        :> "best"       ) @@ ("BEST"        :> "best"       ) @@ ("best"        :> "best")
    @@ ("Excellent"   :> "excellent"  ) @@ ("EXCELLENT"   :> "excellent"  ) @@ ("excellent"   :> "excellent")
    @@ ("Good"        :> "good"       ) @@ ("GOOD"        :> "good"       ) @@ ("good"        :> "good")
    @@ ("Inaccuracy"  :> "inaccuracy" ) @@ ("INACCURACY"  :> "inaccuracy" ) @@ ("inaccuracy"  :> "inaccuracy")
    @@ ("Mistake"     :> "mistake"    ) @@ ("MISTAKE"     :> "mistake"    ) @@ ("mistake"     :> "mistake")
    @@ ("Blunder"     :> "blunder"    ) @@ ("BLUNDER"     :> "blunder"    ) @@ ("blunder"     :> "blunder")
    @@ ("Book"        :> "book"       ) @@ ("BOOK"        :> "book"       ) @@ ("book"        :> "book")
    @@ ("Forced"      :> "forced"     ) @@ ("FORCED"      :> "forced"     ) @@ ("forced"      :> "forced")
    @@ ("Other"       :> "other"      ) @@ ("OTHER"       :> "other"      ) @@ ("other"       :> "other")

lower(cls) == LowerTable[cls]

LabelSpellings == DOMAIN LowerTable

\* a slip: the label is compared as it is spelled
_get_color_CaseSensitive(cls) ==
    IF cls = "brilliant" THEN "gold"
    ELSE IF cls = "great" THEN "orange"
    ELSE IF cls = "blunder" THEN "red"
    ELSE IF cls = "mistake" THEN "orange-red"
    ELSE IF cls = "book" THEN "blue"
    ELSE IF cls = "best" THEN "green"
    ELSE IF cls = "excellent" THEN "light-green"
    ELSE "grey"

_get_icon(cls) ==
    LET c == lower(cls) IN
    IF c \in {"brilliant", "great"} THEN "exclamation"
    ELSE IF c = "blunder" THEN "skull"
    ELSE IF c = "mistake" THEN "question"
    ELSE IF c = "inaccuracy" THEN "question-mark-outline"
    ELSE IF c = "book" THEN "book"
    ELSE "check"

_get_color(cls) ==
    LET c == lower(cls) IN
    IF c = "brilliant" THEN "gold"
    ELSE IF c = "great" THEN "orange"
    ELSE IF c = "blunder" THEN "red"
    ELSE IF c = "mistake" THEN "orange-red"
    ELSE IF c = "book" THEN "blue"
    ELSE IF c = "best" THEN "green"
    ELSE IF c = "excellent" THEN "light-green"
    ELSE "grey"

\* the most labels displayed in a row
MaxShown == 2

\* move_analysis_to_json: frontend_icon and frontend_color of a label
Display ==
    /\ Len(shown) < MaxShown
    /\ \E cls \in LabelSpellings :
          shown' = Append(shown,
              [cls |-> cls, icon |-> _get_icon(cls), color |-> _get_color(cls)])
    /\ UNCHANGED <<analyzer, config, classified, book_cache, lookups,
                   converted, server>>

InitDisplay ==
    /\ AnalyzerIdle
    /\ config = DEFAULT_CONFIG
    /\ classified = <<>>
    /\ shown = <<>>
    /\ book_cache = <<>>
    /\ lookups = <<>>
    /\ OthersIdle

NextDisplay == Display

SpecDisplay == InitDisplay /\ [][NextDisplay]_vars

\* the label of a spelling, letter case set aside
SameLabel(cls, name) == cls \in {l \in LabelSpellings : LowerTable[l] = name}

\* the icons of the table of the specification
TableIcon(cls) ==
    CASE SameLabel(cls, "brilliant") \/ SameLabel(cls, "great") -> "exclamation"
      [] SameLabel(cls, "blunder") -> "skull"
      [] SameLabel(cls, "mistake") -> "question"
      [] SameLabel(cls, "inaccuracy") -> "question-mark-outline"
      [] SameLabel(cls, "book") -> "book"
      [] OTHER -> "check"

\* the colours of the table of the specification: great is not in it
TableColor(cls) ==
    CASE SameLabel(cls, "brilliant") -> "gold"
      [] SameLabel(cls, "blunder") -> "red"
      [] SameLabel(cls, "mistake") -> "orange-red"
      [] SameLabel(cls, "book") -> "blue"
      [] SameLabel(cls, "best") -> "green"
      [] SameLabel(cls, "excellent") -> "light-green"
      [] OTHER -> "grey"

(* C16, as claimed: _get_color and _get_icon are the table of the
   specification, whatever the letter case: every label other than
   brilliant, blunder, mistake, book, best and excellent, great among them,
   is grey. *)
C16_DisplayTable ==
    \A k \in 1..Len(shown) :
        /\ shown[k].icon = TableIcon(shown[k].cls)
        /\ shown[k].color = TableColor(shown[k].cls)

(* C16, amended: the icons are those of the table; the colours are those of
   the table but for great, which is orange; good, inaccuracy, forced and
   unknown labels are grey; letter case is ignored. *)
C16_DisplayTableGreatOrange ==
    \A k \in 1..Len(shown) :
        /\ shown[k].icon = TableIcon(shown[k].cls)
        /\ shown[k].color =
              IF SameLabel(shown[k].cls, "great") THEN "orange"
              ELSE TableColor(shown[k].cls)

\* Great, as the analyzer spells it, shown orange, and GOOD shown grey
C16_Witness ==
    /\ Len(shown) = 2
    /\ shown[1] = [cls |-> "Great", icon |-> "exclamation", color |-> "orange"]
    /\ shown[2] = [cls |-> "GOOD", icon |-> "check", color |-> "grey"]

----------------------------------------------------------------------------
(* The rules after the sacrifice rule, checked under SpecLabels *)

\* r is a sacrifice candidate that the deeper evaluation confirmed
VerifiedSacrifice(r) ==
    /\ SacCandidate(r)
    /\ LossOf(r) < config.sacrifice_sound_max_win_loss
    /\ DeepSound(r)

(* C17: in a batch of more than one candidate, a candidate that is not a
   book move, not a verified sacrifice and not the only good move is Best
   when it is tied-for-best (cp within tie_cp_eps or win% within
   tie_win_eps of the maximum, bounds included) or when win_before and
   win_after both exceed 99, whatever its loss; otherwise its label is
   classify_by_delta(max(0, win_before - win_after)). *)
C17_BestOrBucket ==
    \A i \in 1..Len(results) :
        LET r == results[i] IN
        ( /\ NumCands > 1
          /\ ~r.is_book_move
          /\ ~VerifiedSacrifice(r)
          /\ ~OnlyGood(r) )
        => r.classification =
              IF TiedForBest(r) \/ (r.win_before > 99000 /\ r.win_after > 99000)
              THEN "Best"
              ELSE classify_by_delta(LossOf(r))

\* Best for a candidate exactly tie_cp_eps below the best cp, more than
\* tie_win_eps below the best win%, whose loss is in the bucket Inaccuracy
C17_Witness ==
    \E i \in 1..Len(results) :
        LET r == results[i] IN
        /\ NumCands > 1
        /\ ~r.is_book_move
        /\ r.cp_after = TopCp - tie_cp_eps
        /\ TopWin - r.win_after > tie_win_eps
        /\ classify_by_delta(LossOf(r)) = "Inaccuracy"
        /\ r.classification = "Best"

(* C18: in a batch of more than one candidate, a candidate that is not a
   verified sacrifice is Great with the comment "Found the only good move."
   exactly when its loss is below delta_excellent, its win_after is within
   1.0 of the highest win% of the batch, the highest win% exceeds the
   second-highest by more than 20.0 and exceeds 50.0; the rule comes before
   the book, tie and bucket rules, so a book move is Great too. *)
C18_OnlyGoodMoveIsGreat ==
    \A i \in 1..Len(results) :
        LET r == results[i] IN
        (NumCands > 1 /\ ~VerifiedSacrifice(r))
        => IF OnlyGood(r)
           THEN /\ r.classification = "Great"
                /\ HasComment(r, "Found the only good move.")
           ELSE /\ r.classification # "Great"
                /\ ~HasComment(r, "Found the only good move.")

\* a book move that is the only good move of its batch, labelled Great
C18_Witness ==
    \E i \in 1..Len(results) :
        LET r == results[i] IN
        /\ NumCands > 1
        /\ r.is_book_move
        /\ ~SacCandidate(r)
        /\ OnlyGood(r)
        /\ r.classification = "Great"
        /\ HasComment(r, "Found the only good move.")

----------------------------------------------------------------------------
(* SpecSacrifice: one call; the focus candidate loses material or captures
   in one of the ways of BoardFactsOf, and the deeper evaluation answers
   with an improvement, a small or a large loss, or a mate for either side *)

SacrificeEvals == {Cp(50), Cp(-50)}

SacrificeFocus ==
    [ev : SacrificeEvals, depth : {<<"int", 14>>},
     mat : {"board", "pawn", "rook"}, book : {FALSE},
     trade : {"none", "QxP", "QxP_safe", "QxP_discovered", "RxN", "NxR", "ep"}]

SacrificePlain ==
    [ev : SacrificeEvals, depth : {<<"int", 14>>}, mat : {"board"},
     book : {FALSE}, trade : {"none"}]

SacrificeBefores ==
    {[cp |-> Some(100), mate |-> None, material |-> <<>>],
     [cp |-> Some(50), mate |-> None, material |-> <<>>],
     [cp |-> None, mate |-> None, material |-> <<>>]}

\* the deeper answers, seen from the mover
SacrificeAnswers == {Cp(50), Cp(0), Cp(-50), Mate(3), Mate(-2), Mate(0)}

\* the loss between cp 50 and cp 0: the threshold a caller sets to put a deep
\* loss exactly on it
LossAtThreshold == SigmoidTable[50] - SigmoidTable[0]

\* Config() and Config(sacrifice_sound_max_win_loss=...)
SacrificeConfigs ==
    {DEFAULT_CONFIG,
     [DEFAULT_CONFIG EXCEPT !.sacrifice_sound_max_win_loss = LossAtThreshold]}

InitSacrifice ==
    /\ InitInputs(SacrificeBefores, BOOLEAN, SacrificeFocus, SacrificePlain)
    /\ AnalyzerStart
    /\ config \in SacrificeConfigs
    /\ classified = <<>>
    /\ shown = <<>>
    /\ book_cache = <<>>
    /\ lookups = <<>>
    /\ OthersIdle

CallEvaluateSacrifice ==
    \/ \E a \in SacrificeAnswers :
          VerifyReturn([cp |-> ToEngine(a.cp, returns_white_pov,
                                        side_to_move_white),
                        mate |-> ToEngine(a.mate, returns_white_pov,
                                          side_to_move_white)])
    \/ VerifyRaise

NextSacrifice ==
    \/ Begin
    \/ FirstPass
    \/ SecondPassBegin
    \/ CallEvaluateSacrifice
    \/ Classify
    \/ Return

SpecSacrifice == InitSacrifice /\ [][NextSacrifice]_vars

\* an engine answer seen from the mover
FromEngine(v) ==
    IF v = None THEN None
    ELSE IF returns_white_pov /\ ~side_to_move_white THEN Some(-Val(v))
    ELSE v

\* the win% of a deep answer that is a cp or a mate of non-zero distance
DeepWinOf(a) ==
    IF a.mate # None
    THEN (IF Val(FromEngine(a.mate)) > 0 THEN 100000 ELSE 0)
    ELSE SigmoidTable[Val(FromEngine(a.cp))]

DeepLossOf(r, a) ==
    IF r.win_before - DeepWinOf(a) > 0 THEN r.win_before - DeepWinOf(a) ELSE 0

(* C19: in the deep verification the loss is max(0, win_before - deep_win),
   where deep_win is 100 when the deep result is a mate for the mover, 0 when
   it is a mate against the mover, and the sigmoid of the mover-relative cp
   otherwise; the sacrifice is verified sound exactly when this loss is
   strictly below sacrifice_sound_max_win_loss, so that a deep result better
   than win_before, counting as loss 0, always verifies; a sacrifice that is
   not verified carries the comment with the loss, rounded to a tenth. *)
C19_DeepLossDecides ==
    \A i \in 1..Len(results) :
        LET r == results[i] IN
        \A k \in CallsFor(r.move_uci) :
            LET a == evaluate_calls[k].result IN
            ( /\ ~evaluate_calls[k].raised
              /\ (a.mate # None => Val(a.mate) # 0) )
            => /\ r.analysis_meta.verified_sound
                    = (DeepLossOf(r, a) < config.sacrifice_sound_max_win_loss)
               /\ r.analysis_meta.verified = r.analysis_meta.verified_sound
               /\ ~r.analysis_meta.verified_sound
                    => \E c \in 1..Len(r.comments) :
                          /\ r.comments[c][1] = "Sacrifice unsound at depth"
                          /\ r.comments[c][3] = PyRound(DeepLossOf(r, a), 100)

\* a caller's threshold met exactly by the deep loss: not verified, and the
\* comment gives the loss
C19_Witness ==
    \E i \in 1..Len(results) :
        LET r == results[i] IN
        \E k \in CallsFor(r.move_uci) :
            LET a == evaluate_calls[k].result IN
            /\ ~evaluate_calls[k].raised
            /\ a.mate = None
            /\ DeepLossOf(r, a) = config.sacrifice_sound_max_win_loss
            /\ ~r.analysis_meta.verified_sound
            /\ r.classification \notin {"Brilliant", "Great"}
            /\ HasComment(r, "Sacrifice unsound at depth")

\* the material-delta path marks r
MaterialSacrifice(r) ==
    /\ NumCands > 1
    /\ TiedForBest(r)
    /\ r.material_delta_cp <= -pawn_sacrifice_cp

\* r is marked, and not by the material-delta path
TradeMarked(r) ==
    r.analysis_meta.is_sac_candidate /\ ~MaterialSacrifice(r)

(* C20: the trade path marks only a tied-for-best capture, in a batch of
   more than one candidate, that the material-delta path left unmarked, and
   only when the opponent attacks the destination square in the position
   after the capture; the mark is Brilliant when victim value - attacker
   value <= -big_sacrifice_cp and Great when it is <= -pawn_sacrifice_cp.
   A candidate the material-delta path marks keeps that path's mark, and a
   capture of this kind whose destination is attacked already before the
   move is marked. *)
C20_TradePathNeedsAttack ==
    \A i \in 1..Len(results) :
        LET r == results[i]
            b == board_master.moves[r.move_uci]
        IN  /\ TradeMarked(r)
               => /\ NumCands > 1
                  /\ TiedForBest(r)
                  /\ b.is_capture
                  /\ b.attacked_after
                  /\ TradeDeltaOf(r) <= -pawn_sacrifice_cp
                  /\ r.analysis_meta.sac_type =
                        IF TradeDeltaOf(r) <= -big_sacrifice_cp
                        THEN "Brilliant" ELSE "Great"
            /\ MaterialSacrifice(r)
               => /\ r.analysis_meta.is_sac_candidate
                  /\ r.analysis_meta.sac_type =
                        IF r.material_delta_cp <= -big_sacrifice_cp
                        THEN "Brilliant" ELSE "Great"
            /\ ( /\ NumCands > 1
                 /\ TiedForBest(r)
                 /\ TradeSacrifice(r) )
               => r.analysis_meta.is_sac_candidate

\* a queen takes a defended pawn at no loss of material: marked Brilliant by
\* the trade path
C20_Witness ==
    \E i \in 1..Len(results) :
        LET r == results[i]
            b == board_master.moves[r.move_uci]
        IN  /\ TradeMarked(r)
            /\ r.material_delta_cp = 0
            /\ b.victim_pt = "P" /\ b.attacker_pt = "Q"
            /\ b.attacked_after
            /\ r.analysis_meta.sac_type = "Brilliant"

----------------------------------------------------------------------------
(* SpecMates: one call; the evaluations before and after are mates for
   either side, near, far (100 moves or more) and of distance 0, mates that
   come with a cp, and plain cp values; a candidate may give up a rook *)

\* a mate that the engine reports together with a cp
MateWithCp(m, c) == [cp |-> Some(c), mate |-> Some(m)]

MateEvals ==
    {Cp(50), Cp(-50), Mate(1), Mate(-1), Mate(0), Mate(150),
     MateWithCp(3, -250)}

MateFocus ==
    [ev : MateEvals, depth : {<<"int", 14>>}, mat : {"board", "rook"},
     book : BOOLEAN, trade : {"none"}]

MatePlain ==
    [ev : {Cp(50), Cp(-50), Mate(1)}, depth : {<<"int", 14>>},
     mat : {"board"}, book : {FALSE}, trade : {"none"}]

MateBefores ==
    {[cp |-> Some(50), mate |-> None, material |-> <<>>],
     [cp |-> None, mate |-> Some(2), material |-> <<>>],
     [cp |-> None, mate |-> Some(-1), material |-> <<>>],
     [cp |-> None, mate |-> Some(0), material |-> <<>>],
     [cp |-> Some(-250), mate |-> Some(3), material |-> <<>>]}

InitMates ==
    /\ InitInputs(MateBefores, BOOLEAN, MateFocus, MatePlain)
    /\ InitLocals

SpecMates == InitMates /\ [][Next]_vars

\* the candidate's entry of legal_moves_data
InputOf(r) ==
    legal_moves_data[CHOOSE i \in 1..NumCands :
                        legal_moves_data[i].move_uci = r.move_uci]

\* the mate distances seen from the mover, None without a mate
MateBefore == FromEngine(eval_before.mate)
MateAfter(r) == FromEngine(InputOf(r).engine_eval_after.mate)

\* sign(m) * (mate_cp_base - |m| * mate_cp_step), 0 for m = 0
SignedMateCp(m) ==
    IF m = 0 THEN 0
    ELSE IF m > 0 THEN mate_cp_base - m * mate_cp_step
    ELSE -(mate_cp_base + m * mate_cp_step)

(* C21: for every candidate, is_mate_missed is true exactly when the
   evaluation before the move, seen from the mover, is a mate of positive
   distance and the evaluation after the move, seen from the mover, is no
   mate or a mate of distance <= 0; the label of the candidate plays no
   part. *)
C21_MateMissedFlag ==
    \A i \in 1..Len(results) :
        LET r == results[i] IN
        r.is_mate_missed
            = ( /\ MateBefore # None
                /\ Val(MateBefore) > 0
                /\ (MateAfter(r) = None \/ Val(MateAfter(r)) <= 0) )

\* black to move with an engine that reports for white: white's mate -2
\* before is the mover's mate in 2, and a book move gives it away
C21_Witness ==
    \E i \in 1..Len(results) :
        LET r == results[i] IN
        /\ returns_white_pov /\ ~side_to_move_white
        /\ eval_before.mate = Some(-2)
        /\ MateAfter(r) = None
        /\ r.is_mate_missed
        /\ r.classification = "Blunder"
        /\ r.is_book_move

(* C22: whenever the evaluation before the move or after a candidate move
   carries a mate distance, the win probability stored in the verdict is
   exactly mate_win_score when the distance seen from the mover is positive
   and mate_loss_score otherwise, and the stored centipawn value is
   mate_to_cp_equiv of that distance; a cp that comes with the mate is
   ignored. *)
C22_MateIsCategorical ==
    \A i \in 1..Len(results) :
        LET r == results[i] IN
        /\ MateBefore # None
           => /\ r.win_before = (IF Val(MateBefore) > 0 THEN mate_win_score
                                                        ELSE mate_loss_score)
              /\ r.cp_before = SignedMateCp(Val(MateBefore))
        /\ MateAfter(r) # None
           => /\ r.win_after = (IF Val(MateAfter(r)) > 0 THEN mate_win_score
                                                         ELSE mate_loss_score)
              /\ r.cp_after = SignedMateCp(Val(MateAfter(r)))

\* a mate in 3 for the mover that comes with cp -250, before and after the
\* move: 100% and 9700 both times
C22_Witness ==
    \E i \in 1..Len(results) :
        LET r == results[i] IN
        /\ MateBefore = Some(3) /\ FromEngine(eval_before.cp) = Some(-250)
        /\ MateAfter(r) = Some(3)
        /\ FromEngine(InputOf(r).engine_eval_after.cp) = Some(-250)
        /\ r.win_before = 100000 /\ r.cp_before = 9700
        /\ r.win_after = 100000 /\ r.cp_after = 9700

(* C27, as claimed: within one batch, a candidate whose stored cp_after is
   greater than another's has a win_after that is not less than the
   other's, also when evaluations are mates of distance 0 or of distance
   100 or more. *)
C27_ScalesAgree ==
    \A i, j \in 1..Len(results) :
        results[i].cp_after > results[j].cp_after
            => results[i].win_after >= results[j].win_after

----------------------------------------------------------------------------
(* SpecMateCp: mate_to_cp_equiv called on its own with the default Config,
   on mate distances of both signs around 0 and around mate_cp_base /
   mate_cp_step *)

MaxConverted == 2

MateDistances == {-150, -101, -100, -99, -2, -1, 0, 1, 2, 99, 100, 101, 150}

\* centipawn values an engine reports for a position without a mate
CentipawnValues == {-250, 0, 50, 1300}

InitMateCp == AnalyzerIdle /\ HelpersIdle

Convert ==
    /\ Len(converted) < MaxConverted
    /\ \E m \in MateDistances :
          converted' = Append(converted,
              [mate |-> m, value |-> mate_to_cp_equiv(m)])
    /\ UNCHANGED <<analyzer, config, classified, shown, book_cache, lookups,
                   server>>

NextMateCp == Convert

SpecMateCp == InitMateCp /\ [][NextMateCp]_vars

(* C23, as claimed: with the default Config mate_to_cp_equiv(m) is
   sign(m) * (10000 - |m| * 100) for m # 0 and 0 for m = 0; of two positive
   distances the smaller gets the greater value; and the value of every
   positive distance is greater than every centipawn value. *)
C23_MateOutranksCp ==
    /\ \A k \in 1..Len(converted) :
          converted[k].value = SignedMateCp(converted[k].mate)
    /\ \A k, l \in 1..Len(converted) :
          (0 < converted[k].mate /\ converted[k].mate < converted[l].mate)
              => converted[k].value > converted[l].value
    /\ \A k \in 1..Len(converted) :
          converted[k].mate > 0
              => \A c \in CentipawnValues : converted[k].value > c

----------------------------------------------------------------------------
(* SpecDepth: one call; the engine's default depth is the server's or a
   shallow one, and the candidates were searched to depths below 10, from
   10 on, and two or more beyond the default, or carry no depth; a
   candidate may give up a rook *)

SearchDepths ==
    {<<"missing">>, <<"int", 8>>, <<"int", 9>>, <<"int", 10>>,
     <<"int", 13>>, <<"int", 14>>}

\* ServerEngineInterface(engine, depth=...): the server's 12, and 6
DefaultDepths == {EngineDepth, 6}

DepthFocus ==
    [ev : {Cp(50), Cp(-250)}, depth : SearchDepths, mat : {"board", "rook"},
     book : BOOLEAN, trade : {"none"}]

DepthPlain ==
    [ev : {Cp(50)}, depth : {<<"int", 10>>}, mat : {"board"},
     book : {FALSE}, trade : {"none"}]

DepthBefores == {[cp |-> Some(50), mate |-> None, material |-> <<>>]}

InitDepth ==
    /\ InitInputsAt(DepthBefores, {TRUE}, DepthFocus, DepthPlain, DefaultDepths)
    /\ InitLocals

SpecDepth == InitDepth /\ [][Next]_vars

\* the depth of the candidate's evaluation after the move, 0 without one
DepthOf(r) == Val(Get(InputOf(r).engine_eval_after, "depth", Some(0)))

(* C24: for every verdict, classification_confidence is "high" exactly when
   the depth of the candidate's after-evaluation is >= default_depth + 2
   and the candidate is tied-for-best; otherwise it is "medium" exactly
   when the depth is >= 10 and < default_depth + 2, or >= default_depth + 2
   without a tie; otherwise it is "low". *)
C24_ConfidenceTiers ==
    \A i \in 1..Len(results) :
        LET r == results[i]
            deep == DepthOf(r) >= default_depth + 2
        IN  r.classification_confidence =
                IF deep /\ TiedForBest(r) THEN "high"
                ELSE IF (DepthOf(r) >= 10 /\ ~deep) \/ (deep /\ ~TiedForBest(r))
                     THEN "medium"
                ELSE "low"

\* a batch with a tied second candidate at full depth, "high" though it is
\* not the engine's first choice
C24_Witness ==
    \E i \in 1..Len(results) :
        LET r == results[i] IN
        /\ r.engine_rank > 0
        /\ TiedForBest(r)
        /\ DepthOf(r) >= default_depth + 2
        /\ r.classification_confidence = "high"

\* the accuracy of r when the stability bonus is b
AccuracyWith(r, b) ==
    LET raw == 1000000 - Abs(r.win_delta) * scale_by_position(r.win_before)
               + (IF r.is_book_move THEN 20000 ELSE 0)
               + b * 10000
               - Max(0, -r.material_delta_cp) * material_penalty_per_cp
    IN  Max(0, Min(100, PyRound(raw, 10000)))

(* C25, as claimed: for every candidate whose after-evaluation depth is
   below 10 the stability bonus in the accuracy is 1, for every engine
   default_depth; for depth >= default_depth + 2 it is 4, and otherwise
   it is 2. *)
C25_StabilityBonus ==
    \A i \in 1..Len(results) :
        LET r == results[i] IN
        r.accuracy =
            AccuracyWith(r, IF DepthOf(r) < 10 THEN 1
                            ELSE IF DepthOf(r) >= default_depth + 2 THEN 4
                            ELSE 2)

----------------------------------------------------------------------------
(* The Brilliant label, checked under SpecSacrifice *)

(* C26: in every batch, a verdict labelled Brilliant has
   analysis_meta.is_sac_candidate and analysis_meta.verified_sound true;
   and a verdict with verified_sound true belongs to a batch of more than
   one candidate, is tied-for-best, has a shallow loss below
   sacrifice_sound_max_win_loss, and exactly one deep evaluation of it was
   made, which returned without error with a clamped loss below that
   threshold. *)
C26_BrilliantIsVerified ==
    \A i \in 1..Len(results) :
        LET r == results[i] IN
        /\ r.classification = "Brilliant"
           => /\ r.analysis_meta.is_sac_candidate
              /\ r.analysis_meta.verified_sound
        /\ r.analysis_meta.verified_sound
           => /\ NumCands > 1
              /\ TiedForBest(r)
              /\ LossOf(r) < config.sacrifice_sound_max_win_loss
              /\ Cardinality(CallsFor(r.move_uci)) = 1
              /\ \A k \in CallsFor(r.move_uci) :
                    /\ ~evaluate_calls[k].raised
                    /\ DeepLossOf(r, evaluate_calls[k].result)
                          < config.sacrifice_sound_max_win_loss

\* a rook given up at a shallow loss under the threshold, confirmed by a
\* deep mate for the mover
C26_Witness ==
    \E i \in 1..Len(results) :
        LET r == results[i] IN
        /\ r.classification = "Brilliant"
        /\ r.material_delta_cp = -piece_values["R"]
        /\ LossOf(r) > 0
        /\ \E k \in CallsFor(r.move_uci) :
              /\ evaluate_calls[k].result.mate # None
              /\ Val(FromEngine(evaluate_calls[k].result.mate)) > 0

----------------------------------------------------------------------------
(* The accuracy of better and worse results of one batch, checked under
   SpecLabels *)

(* C28, as claimed: of two candidates of one batch with equal book status,
   equal after-evaluation depth and equal material delta, the one with the
   higher win_after never has the lower accuracy, also when win_after
   exceeds win_before. *)
C28_AccuracyMonotone ==
    \A i, j \in 1..Len(results) :
        LET a == results[i]
            b == results[j]
        IN  ( /\ a.is_book_move = b.is_book_move
              /\ DepthOf(a) = DepthOf(b)
              /\ a.material_delta_cp = b.material_delta_cp
              /\ a.win_after > b.win_after )
            => a.accuracy >= b.accuracy

----------------------------------------------------------------------------
(* SpecStats: analyze_full_game of server.py, ply by ply: the analyzer is
   called on the candidates of the position, the verdict of the move played
   is counted, the evaluation after that move becomes the evaluation before
   the next one, and the other side is to move *)

StatsEvals == {Cp(50), Cp(30), Cp(-250)}

\* server.py 255: the candidates are searched to depth 10
StatsFocus ==
    [ev : StatsEvals, depth : {<<"int", 10>>}, mat : {"board"},
     book : BOOLEAN, trade : {"none", "QxP"}]

StatsPlain ==
    [ev : StatsEvals, depth : {<<"int", 10>>}, mat : {"board"},
     book : {FALSE}, trade : {"none"}]

StatsBefores == {[cp |-> Some(50), mate |-> None, material |-> <<>>]}

InitStats ==
    /\ InitInputs(StatsBefores, {TRUE}, StatsFocus, StatsPlain)
    /\ InitLocals

\* server.py 298-325: the move played is one of the candidates; its verdict
\* is counted under its label in lower case when stats has that key, its
\* accuracy is added, the move is counted, and the loop goes on with the
\* evaluation after the move and the other side to move
TallyPly ==
    /\ pc = "done"
    /\ \E p \in 1..Len(results) :
          LET played_result == results[p]
              turn == IF side_to_move_white THEN "w" ELSE "b"
              cls == lower(played_result.classification)
              next_eval_dict == legal_moves_data[p].engine_eval_after
          IN  /\ stats' = IF cls \in DOMAIN stats[turn]
                          THEN [stats EXCEPT ![turn][cls] = @ + 1]
                          ELSE stats
              /\ acc_totals' =
                    [acc_totals EXCEPT ![turn] = @ + played_result.accuracy]
              /\ move_counts' = [move_counts EXCEPT ![turn] = @ + 1]
              /\ eval_before' = [cp |-> Get(next_eval_dict, "cp", None),
                                 mate |-> Get(next_eval_dict, "mate", None),
                                 material |-> <<>>]
    /\ side_to_move_white' = ~side_to_move_white
    /\ IF call_no < MaxCalls
       THEN call_no' = call_no + 1 /\ pc' = "start"
       ELSE call_no' = call_no /\ pc' = "game_over"
    /\ UNCHANGED <<returns_white_pov, default_depth, legal_moves_data,
                   board_master, book_db, locals, evaluate_calls, returned,
                   config, classified, shown, book_cache, lookups, converted>>

NextStats ==
    \/ Begin
    \/ FirstPass
    \/ SecondPassBegin
    \/ CallEvaluate
    \/ Classify
    \/ Return
    \/ TallyPly

SpecStats == InitStats /\ [][NextStats]_vars

\* the sum of the counters of one side
CountedOf(k) ==
    stats[k].brilliant + stats[k].great + stats[k].critical + stats[k].best
    + stats[k].good + stats[k].book + stats[k].inaccuracy + stats[k].mistake
    + stats[k].miss + stats[k].blunder

(* C29, as claimed: after any sequence of analysed plies, the counters of
   each side in stats add up to that side's move_counts, for every label
   the analyzer can give to the move played. *)
C29_EveryMoveCounted ==
    \A k \in SideKeys : CountedOf(k) = move_counts[k]

====
